---- MODULE Spec2Model ----
(***************************************************************************)
(* Verification model of the Local Model Inference Service Layer:          *)
(*   - LlamaServerProcess   (src/nlp/llm/server_process.py)                *)
(*   - KvCacheClient        (src/nlp_kv_cache/llm/kv_client.py)            *)
(*   - OpenAICompatChatClient.chat_stream (src/nlp/llm/client.py)          *)
(* Each component has its own specification (SpecServer, SpecKv, ...);     *)
(* the variables of the other components stay at their initial values.     *)
(***************************************************************************)
EXTENDS Integers, Sequences, FiniteSets, TLC

VARIABLES
    \* ---- LlamaServerProcess and its environment ----
    proc,        \* self._proc: 0 is None, otherwise the id of the Popen object
    live,        \* ids of launched processes that have not exited yet
    launched,    \* number of processes launched so far by this supervisor
    pc,          \* position of the (single) caller inside start()/stop()
    clock,       \* ticks of 0.25 s elapsed in the running start() call since it
                 \* computed its deadline (0 when no start() is in progress)
    deadline,    \* local `deadline` of start(), on the same scale
    readyAt,     \* tick from which the launched backend answers the chat probe with 200
    chatOk,      \* the process of self._proc answered a chat probe with 200
    healthOk,    \* the process of self._proc answered /health or /v1/models with 200
    httpMade,    \* the current/last start() call issued an HTTP request
    ret,         \* outcome of the last finished call
    binExists,   \* cfg.server_bin.exists()
    modelExists, \* cfg.model_path.exists()
    signals,     \* signals sent by the current/last stop() call, in order
    \* ---- KvCacheClient and the shared llama_cpp.Llama instance ----
    n_tokens,    \* self._llm.n_tokens: logical length of the model's cache
    kv,          \* cache position -> token whose evaluation it holds (or Empty)
    handle,      \* KvCacheHandle returned by the latest ingest_paragraph
    oldHandle,   \* KvCacheHandle returned by the ingestion before that
    kpc,         \* "idle", or "gen" while _generate_tokens runs
    cur,         \* the call in progress / last finished: [op, h, max_tokens]
    pending,     \* tokens llm.generate evaluates next
    out,         \* tokens yielded so far by llm.generate in this call
    text,        \* text returned by the last chat_with_cache / chat_no_cache
    noCacheSince, \* chat_no_cache ran since the latest ingest_paragraph
    staleSince,  \* chat_with_cache ran on an older handle since the latest ingest_paragraph
    \* ---- _extract_last_json_object ----
    jtext,       \* the text given to _extract_last_json_object
    jres,        \* what it returned
    jpc,         \* "ready" before the call, "done" after it, "http" after the HTTP call
    jret,        \* how the JSON-returning call ended: a value or an error
    \* ---- OpenAICompatChatClient.chat_stream ----
    lines,       \* the lines r.iter_lines() delivers, in order
    spos,        \* number of lines the generator has consumed
    yielded,     \* the chunks yielded so far, in order
    spc,         \* "iter" while the generator runs, then "done" or "raised"
    \* ---- OpenAICompatChatClient: one backend response, the four calls ----
    resp,        \* the response the backend gives: status, body text, body as JSON
    hrets,       \* per call: how it ended
    hreqs,       \* per call: number of HTTP requests it issued
    \* ---- resolve_server_config / resolve_request_config ----
    cfgIn,       \* the arguments of the call and the environment it runs in
    cfgOut,      \* how the call ended: a config or an error
    cfgPrev,     \* how the previous call with the same arguments ended
    \* ---- tasks.grammar_correction.correct_sentences, one sentence ----
    gIn,         \* the sentence, the backend's message and the model family
    gOut,        \* the (final, thinking) pair appended for the sentence
    \* ---- services_kv_cache.LlmServiceKV over its kv_client ----
    svcCache,    \* LlmServiceKV._cache: None or the handle of an ingestion
    svcLog,      \* the calls made on the kv_client so far, in order
    svcRet,      \* the last service call and how it ended
    \* ---- KvCacheClient objects of several callers in one process ----
    shared_llm,  \* KvCacheClient._shared_llm: None or a model instance
    llms,        \* the model instances created so far: cache length and contents
    cl,          \* per caller: its client's _llm, its handle and its call in flight
    serialized   \* whether the host lets only one call run at a time

serverVars == <<proc, live, launched, pc, clock, deadline, readyAt, chatOk,
                healthOk, httpMade, ret, binExists, modelExists, signals>>

kvVars == <<n_tokens, kv, handle, oldHandle, kpc, cur, pending, out, text,
           noCacheSince, staleSince>>

jsonVars == <<jtext, jres, jpc, jret>>

streamVars == <<lines, spos, yielded, spc>>

httpVars == <<resp, hrets, hreqs>>

configVars == <<cfgIn, cfgOut, cfgPrev>>

grammarVars == <<gIn, gOut>>

serviceVars == <<svcCache, svcLog, svcRet>>

sharedVars == <<shared_llm, llms, cl, serialized>>

vars == <<serverVars, kvVars, jsonVars, streamVars, httpVars, configVars, grammarVars, serviceVars, sharedVars>>
nonServerVars == <<kvVars, jsonVars, streamVars, httpVars, configVars, grammarVars, serviceVars, sharedVars>>
nonKvVars == <<serverVars, jsonVars, streamVars, httpVars, configVars, grammarVars, serviceVars, sharedVars>>
nonJsonVars == <<serverVars, kvVars, streamVars, httpVars, configVars, grammarVars, serviceVars, sharedVars>>
nonStreamVars == <<serverVars, kvVars, jsonVars, httpVars, configVars, grammarVars, serviceVars, sharedVars>>
nonHttpVars == <<serverVars, kvVars, jsonVars, streamVars, configVars, grammarVars, serviceVars, sharedVars>>
nonConfigVars == <<serverVars, kvVars, jsonVars, streamVars, httpVars, grammarVars, serviceVars, sharedVars>>
nonGrammarVars == <<serverVars, kvVars, jsonVars, streamVars, httpVars, configVars, serviceVars, sharedVars>>
nonServiceVars == <<serverVars, kvVars, jsonVars, streamVars, httpVars, configVars, grammarVars, sharedVars>>
nonSharedVars == <<serverVars, kvVars, jsonVars, streamVars, httpVars, configVars, grammarVars,
                   serviceVars>>

(***************************************************************************)
(* Bounds of the model.                                                    *)
(***************************************************************************)
MaxLaunch == 3      \* processes one supervisor may launch in a run
MaxShortWait == 1   \* largest wait_s (ticks) in the lifecycle specification
MaxN == 5           \* latest tick (after launch) at which a backend becomes ready
MaxWait == 16       \* largest wait_s (ticks) in the readiness specification
MaxText == 1        \* longest paragraph / prompt text given to KvCacheClient, in characters
MaxTokens == 3      \* largest max_tokens in the generation specification
MaxKvTokens == 2    \* largest max_tokens in the cache specification
MaxJsonLen == 7     \* longest enumerated text given to _extract_last_json_object
MaxLines == 3       \* longest enumerated sequence of server-sent-event lines
MaxExtra == 2       \* error bodies are up to MaxExtra characters longer than BodyLimit
MaxTrace == 4       \* longest enumerated reasoning trace
MaxSvcLog == 5      \* calls on the kv_client in one run of the service
MaxPrefix == 2      \* longest ingested prefix of a caller, in tokens
MaxSample == 2      \* largest max_tokens of a caller's chat
SharedCtx == 3      \* n_ctx given to the first KvCacheClient

(***************************************************************************)
(* Program constants, in ticks of 0.25 s.                                  *)
(***************************************************************************)
ProbeTimeout == 4   \* requests.post/get(..., timeout=1)
SleepTicks == 1     \* time.sleep(0.25)
GraceTicks == 20    \* self._proc.wait(timeout=5)
BodyLimit == 1000   \* r.text[:1000]
\* longest duration of one iteration of the polling loop: three probes and the sleep
IterTicks == ProbeTimeout + ProbeTimeout + ProbeTimeout + SleepTicks
\* longest time from the end of a failed chat probe to the next test of the
\* deadline: the /health probe, the /v1/models probe and the sleep
GapTicks == ProbeTimeout + ProbeTimeout + SleepTicks

None == 0
Never == MaxWait + IterTicks + MaxWait   \* a readiness time no start() call reaches
WaitS == 0..MaxWait
ReadyTimes == (0..MaxN) \cup {Never}
ShortWaits == 0..MaxShortWait
ShortReady == {0, Never}

(***************************************************************************)
(* LlamaServerProcess                                                      *)
(***************************************************************************)
\* is_running(): self._proc is not None and self._proc.poll() is None
is_running == proc # None /\ proc \in live

ServerInit ==
    /\ proc = None
    /\ live = {}
    /\ launched = 0
    /\ pc = "idle"
    /\ clock = 0
    /\ deadline = 0
    /\ readyAt = Never
    /\ chatOk = FALSE
    /\ healthOk = FALSE
    /\ httpMade = FALSE
    /\ ret = "none"
    /\ binExists \in BOOLEAN
    /\ modelExists \in BOOLEAN
    /\ signals = <<>>

\* start() that checks only the server binary and not the model file
start_no_model_check(wait_s, n) ==
    /\ pc = "idle"
    /\ IF is_running
       THEN /\ ret' = "ok"
            /\ UNCHANGED <<proc, live, launched, pc, clock, deadline, readyAt,
                           chatOk, healthOk, httpMade>>
       ELSE IF ~binExists
       THEN /\ ret' = "FileNotFoundError"
            /\ UNCHANGED <<proc, live, launched, pc, clock, deadline, readyAt,
                           chatOk, healthOk, httpMade>>
       ELSE /\ launched < MaxLaunch
            /\ launched' = launched + 1
            /\ proc' = launched + 1
            /\ live' = live \cup {launched + 1}
            /\ clock' = 0
            /\ deadline' = wait_s
            /\ readyAt' = n
            /\ chatOk' = FALSE
            /\ healthOk' = FALSE
            /\ httpMade' = FALSE
            /\ ret' = "none"
            /\ pc' = "loop"
    /\ UNCHANGED <<binExists, modelExists, signals>>
    /\ UNCHANGED nonServerVars

\* start(wait_s), lines 23-65: the no-op, the two existence checks, Popen and
\* the computation of the deadline. n is when the launched backend gets ready.
start(wait_s, n) ==
    /\ pc = "idle"
    /\ IF is_running
       THEN /\ ret' = "ok"
            /\ UNCHANGED <<proc, live, launched, pc, clock, deadline, readyAt,
                           chatOk, healthOk, httpMade>>
       ELSE IF ~binExists \/ ~modelExists
       THEN /\ ret' = "FileNotFoundError"
            /\ UNCHANGED <<proc, live, launched, pc, clock, deadline, readyAt,
                           chatOk, healthOk, httpMade>>
       ELSE /\ launched < MaxLaunch
            /\ launched' = launched + 1
            /\ proc' = launched + 1
            /\ live' = live \cup {launched + 1}
            /\ clock' = 0
            /\ deadline' = wait_s
            /\ readyAt' = n
            /\ chatOk' = FALSE
            /\ healthOk' = FALSE
            /\ httpMade' = FALSE
            /\ ret' = "none"
            /\ pc' = "loop"
    /\ UNCHANGED <<binExists, modelExists, signals>>
    /\ UNCHANGED nonServerVars

\* line 79 and line 111: while time.time() < deadline ... raise TimeoutError
start_loop ==
    /\ pc = "loop"
    /\ IF clock < deadline
       THEN pc' = "poll" /\ ret' = ret /\ clock' = clock
       ELSE pc' = "idle" /\ ret' = "TimeoutError" /\ clock' = 0
    /\ UNCHANGED <<proc, live, launched, deadline, readyAt, chatOk, healthOk,
                   httpMade, binExists, modelExists, signals>>
    /\ UNCHANGED nonServerVars

\* lines 80-85 with a poll that launches the backend again when it has exited
start_poll_relaunch ==
    /\ pc = "poll"
    /\ IF proc \in live
       THEN /\ pc' = "chat" /\ ret' = ret /\ clock' = clock
            /\ UNCHANGED <<proc, live, launched>>
       ELSE IF launched < MaxLaunch
       THEN /\ launched' = launched + 1
            /\ proc' = launched + 1
            /\ live' = live \cup {launched + 1}
            /\ pc' = "chat" /\ ret' = ret /\ clock' = clock
       ELSE /\ pc' = "idle" /\ ret' = "RuntimeError" /\ clock' = 0
            /\ UNCHANGED <<proc, live, launched>>
    /\ UNCHANGED <<deadline, readyAt, chatOk, healthOk,
                   httpMade, binExists, modelExists, signals>>
    /\ UNCHANGED nonServerVars

\* lines 80-85: if self._proc.poll() is not None: raise RuntimeError(...)
start_poll ==
    /\ pc = "poll"
    /\ IF proc \in live
       THEN pc' = "chat" /\ ret' = ret /\ clock' = clock
       ELSE pc' = "idle" /\ ret' = "RuntimeError" /\ clock' = 0
    /\ UNCHANGED <<proc, live, launched, deadline, readyAt, chatOk, healthOk,
                   httpMade, binExists, modelExists, signals>>
    /\ UNCHANGED nonServerVars

\* The status of a chat probe that completes at tick t: 200 once the backend
\* process is alive and has loaded the model.
ChatAnswers200(t) == proc \in live /\ t >= readyAt

\* lines 88-93: the chat probe; a 200 returns, anything else is swallowed
start_chat ==
    /\ pc = "chat"
    /\ \E d \in 0..ProbeTimeout :
        IF ChatAnswers200(clock + d)
        THEN /\ chatOk' = TRUE
             /\ pc' = "idle"
             /\ ret' = "ok"
             /\ clock' = 0
        ELSE /\ chatOk' = chatOk
             /\ pc' = "health"
             /\ ret' = ret
             /\ clock' = clock + d
    /\ httpMade' = TRUE
    /\ UNCHANGED <<proc, live, launched, deadline, readyAt, healthOk,
                   binExists, modelExists, signals>>
    /\ UNCHANGED nonServerVars

\* lines 96-101: GET /health; its status is ignored
start_health ==
    /\ pc = "health"
    /\ \E d \in 0..ProbeTimeout : clock' = clock + d
    /\ \E ok \in BOOLEAN : healthOk' = (healthOk \/ (ok /\ proc \in live))
    /\ pc' = "models"
    /\ UNCHANGED <<proc, live, launched, deadline, readyAt, chatOk, httpMade, ret,
                   binExists, modelExists, signals>>
    /\ UNCHANGED nonServerVars

\* lines 103-108: GET /v1/models; its status is ignored
start_models ==
    /\ pc = "models"
    /\ \E d \in 0..ProbeTimeout : clock' = clock + d
    /\ \E ok \in BOOLEAN : healthOk' = (healthOk \/ (ok /\ proc \in live))
    /\ pc' = "sleep"
    /\ UNCHANGED <<proc, live, launched, deadline, readyAt, chatOk, httpMade, ret,
                   binExists, modelExists, signals>>
    /\ UNCHANGED nonServerVars

\* a sleep twice as long as the one of line 110
start_sleep_long ==
    /\ pc = "sleep"
    /\ clock' = clock + SleepTicks + SleepTicks
    /\ pc' = "loop"
    /\ UNCHANGED <<proc, live, launched, deadline, readyAt, chatOk, healthOk, httpMade,
                   ret, binExists, modelExists, signals>>
    /\ UNCHANGED nonServerVars

\* line 110: time.sleep(0.25)
start_sleep ==
    /\ pc = "sleep"
    /\ clock' = clock + SleepTicks
    /\ pc' = "loop"
    /\ UNCHANGED <<proc, live, launched, deadline, readyAt, chatOk, healthOk, httpMade,
                   ret, binExists, modelExists, signals>>
    /\ UNCHANGED nonServerVars

\* stop(), lines 114-117: no-op when not running, otherwise terminate()
stop ==
    /\ pc = "idle"
    /\ IF ~is_running
       THEN /\ ret' = "stopped"
            /\ signals' = <<>>
            /\ pc' = pc
       ELSE /\ signals' = <<"terminate">>
            /\ pc' = "stop_wait"
            /\ ret' = "none"
    /\ UNCHANGED <<proc, live, launched, clock, deadline, readyAt, chatOk, healthOk,
                   httpMade, binExists, modelExists>>
    /\ UNCHANGED nonServerVars

\* line 119: a quarter of a second passes in wait(timeout=5) while the process
\* has not exited and the timeout has not expired
stop_tick ==
    /\ pc = "stop_wait"
    /\ proc \in live
    /\ clock < GraceTicks
    /\ clock' = clock + 1
    /\ UNCHANGED <<proc, live, launched, pc, deadline, readyAt, chatOk, healthOk,
                   httpMade, ret, binExists, modelExists, signals>>
    /\ UNCHANGED nonServerVars

\* lines 118-122 with a wait() that may give up before its timeout has expired
stop_wait_early ==
    /\ pc = "stop_wait"
    /\ signals' = IF proc \in live THEN Append(signals, "kill") ELSE signals
    /\ proc' = None
    /\ chatOk' = FALSE
    /\ healthOk' = FALSE
    /\ pc' = "idle"
    /\ clock' = 0
    /\ ret' = "stopped"
    /\ UNCHANGED <<live, launched, deadline, readyAt,
                   httpMade, binExists, modelExists>>
    /\ UNCHANGED nonServerVars

\* lines 118-122 without the assignment of line 122
stop_wait_keep_handle ==
    /\ pc = "stop_wait"
    /\ proc \notin live \/ clock = GraceTicks
    /\ signals' = IF proc \in live THEN Append(signals, "kill") ELSE signals
    /\ pc' = "idle"
    /\ clock' = 0
    /\ ret' = "stopped"
    /\ UNCHANGED <<proc, chatOk, healthOk, live, launched, deadline, readyAt,
                   httpMade, binExists, modelExists>>
    /\ UNCHANGED nonServerVars

\* lines 118-122: wait(timeout=5) returns when the process has exited and raises
\* TimeoutExpired after 5 s; then kill(); self._proc = None.
\* kill() only sends the signal: the process is not waited for again.
stop_wait ==
    /\ pc = "stop_wait"
    /\ proc \notin live \/ clock = GraceTicks
    /\ signals' = IF proc \in live THEN Append(signals, "kill") ELSE signals
    /\ proc' = None
    /\ chatOk' = FALSE
    /\ healthOk' = FALSE
    /\ pc' = "idle"
    /\ clock' = 0
    /\ ret' = "stopped"
    /\ UNCHANGED <<live, launched, deadline, readyAt,
                   httpMade, binExists, modelExists>>
    /\ UNCHANGED nonServerVars

(***************************************************************************)
(* Environment of the supervisor                                           *)
(***************************************************************************)
\* a launched process exits (on its own, or after a signal)
ProcExit ==
    /\ \E p \in live : live' = live \ {p}
    /\ UNCHANGED <<proc, launched, pc, clock, deadline, readyAt, chatOk, healthOk,
                   httpMade, ret, binExists, modelExists, signals>>
    /\ UNCHANGED nonServerVars

\* the binary or the model file appears or disappears between two calls
FilesChange ==
    /\ pc = "idle"
    /\ \E b \in BOOLEAN, m \in BOOLEAN :
        /\ <<b, m>> # <<binExists, modelExists>>
        /\ binExists' = b
        /\ modelExists' = m
    /\ UNCHANGED <<proc, live, launched, pc, clock, deadline, readyAt, chatOk, healthOk,
                   httpMade, ret, signals>>
    /\ UNCHANGED nonServerVars

\* Lifecycle specification: any sequence of start()/stop() calls, process exits
\* and file changes, with short waits.
ServerNext ==
    \/ \E w \in ShortWaits, n \in ShortReady : start(w, n)
    \/ start_loop
    \/ start_poll
    \/ start_chat
    \/ start_health
    \/ start_models
    \/ start_sleep
    \/ stop
    \/ stop_tick
    \/ stop_wait
    \/ ProcExit
    \/ FilesChange


\* Readiness specification: one launch by a stopped supervisor whose files exist,
\* with every wait_s up to MaxWait and every readiness time up to MaxN.
ReadyInit ==
    /\ proc = None
    /\ live = {}
    /\ launched = MaxLaunch - 1
    /\ pc = "idle"
    /\ clock = 0
    /\ deadline = 0
    /\ readyAt = Never
    /\ chatOk = FALSE
    /\ healthOk = FALSE
    /\ httpMade = FALSE
    /\ ret = "none"
    /\ binExists = TRUE
    /\ modelExists = TRUE
    /\ signals = <<>>

ReadyNext ==
    \/ \E w \in WaitS, n \in ReadyTimes : start(w, n)
    \/ start_loop
    \/ start_poll
    \/ start_chat
    \/ start_health
    \/ start_models
    \/ start_sleep
    \/ ProcExit


(***************************************************************************)
(* KvCacheClient: texts, the tokenizer and the model's cache               *)
(*                                                                         *)
(* A text is a sequence of characters.  The vocabulary has one token per   *)
(* character, the token END whose text is the whole stop string            *)
(* ("<|im_end|>" for ChatML), BOS, and IM for the ChatML framing that      *)
(* format_chatml puts around every message.                                *)
(***************************************************************************)
Stop == <<"s", "e">>                 \* the stop string returned by format_chatml
Empty == "empty"                     \* a cache position that holds nothing
NoHandle == [paragraph_hash |-> <<"none">>, prefix_tokens |-> <<>>,
             prefix_len |-> 0, stop |-> <<>>]
InChars == {"a", " "}                \* characters of the texts callers pass in
GenTokens == {"a", "sp", "s", "e", "END"}   \* tokens the model may sample
KvGenTokens == {"a", "END"}          \* those sampled in the cache specification
GenText == <<"a">>                   \* the text used in the generation specification
NCtx == 3 + MaxText + MaxText + MaxTokens + MaxKvTokens    \* n_ctx: every call fits

RECURSIVE TextsUpTo(_)
TextsUpTo(n) ==
    IF n = 0 THEN {<<>>}
    ELSE LET S == TextsUpTo(n - 1)
         IN  S \cup {Append(t, c) : t \in {x \in S : Len(x) = n - 1}, c \in InChars}
Texts == TextsUpTo(MaxText)

\* the bytes a token stands for
Piece(t) ==
    CASE t = "a"   -> <<"a">>
      [] t = "sp"  -> <<" ">>
      [] t = "s"   -> <<"s">>
      [] t = "e"   -> <<"e">>
      [] t = "END" -> Stop
      [] OTHER     -> <<>>

CharToken(c) ==
    CASE c = "a" -> "a"
      [] c = " " -> "sp"
      [] c = "s" -> "s"
      [] c = "e" -> "e"

\* self._llm.detokenize(tokens).decode("utf-8", errors="ignore")
RECURSIVE detokenize(_)
detokenize(toks) ==
    IF toks = <<>> THEN <<>> ELSE Piece(Head(toks)) \o detokenize(Tail(toks))

\* self._llm.tokenize(text.encode("utf-8"), add_bos=False, special=True):
\* the text of a special token is matched first, then single characters
RECURSIVE tokenize(_)
tokenize(t) ==
    IF t = <<>> THEN <<>>
    ELSE IF Len(t) >= Len(Stop) /\ SubSeq(t, 1, Len(Stop)) = Stop
    THEN <<"END">> \o tokenize(SubSeq(t, Len(Stop) + 1, Len(t)))
    ELSE <<CharToken(Head(t))>> \o tokenize(Tail(t))

\* `pat in t`
Contains(t, pat) ==
    \E i \in 1..(Len(t) - Len(pat) + 1) : SubSeq(t, i, i + Len(pat) - 1) = pat

\* t.split(pat)[0]: the text before the first occurrence of pat
SplitFirst(t, pat) ==
    IF ~Contains(t, pat) THEN t
    ELSE LET i == CHOOSE k \in 1..(Len(t) - Len(pat) + 1) :
                      /\ SubSeq(t, k, k + Len(pat) - 1) = pat
                      /\ \A j \in 1..(k - 1) : SubSeq(t, j, j + Len(pat) - 1) # pat
         IN  SubSeq(t, 1, i - 1)

\* str.strip()
strip(t) ==
    LET idx == {i \in 1..Len(t) : t[i] # " "}
    IN  IF idx = {} THEN <<>>
        ELSE SubSeq(t, CHOOSE i \in idx : \A j \in idx : i <= j,
                       CHOOSE i \in idx : \A j \in idx : i >= j)

\* Llama.eval(toks) with n tokens in the cache: the positions after n are
\* discarded and toks are evaluated at the positions n+1, n+2, ...
eval(cache, n, toks) ==
    [i \in 1..NCtx |->
        IF i <= n THEN cache[i]
        ELSE IF i <= n + Len(toks) THEN toks[i - n]
        ELSE Empty]

\* the part of the cache the next evaluation attends to
Visible == [i \in 1..n_tokens |-> kv[i]]

KvInit ==
    /\ n_tokens = 0
    /\ kv = [i \in 1..NCtx |-> Empty]
    /\ handle = NoHandle
    /\ oldHandle = NoHandle
    /\ kpc = "idle"
    /\ cur = [op |-> "none", h |-> NoHandle, max_tokens |-> 0]
    /\ pending = <<>>
    /\ out = <<>>
    /\ text = <<>>
    /\ noCacheSince = FALSE
    /\ staleSince = FALSE

\* ingest_paragraph(paragraph), lines 86-104: strip, format as a system message,
\* tokenize with BOS, reset(), eval(prefix_tokens), prefix_len = n_tokens
ingest_paragraph(paragraph) ==
    /\ kpc = "idle"
    /\ LET p == strip(paragraph)
           prefix_tokens == <<"BOS", "IM">> \o tokenize(p)
       IN  /\ kv' = eval(kv, 0, prefix_tokens)
           /\ n_tokens' = Len(prefix_tokens)
           /\ oldHandle' = handle
           /\ handle' = [paragraph_hash |-> p, prefix_tokens |-> prefix_tokens,
                         prefix_len |-> Len(prefix_tokens), stop |-> Stop]
    /\ cur' = [op |-> "ingest", h |-> NoHandle, max_tokens |-> 0]
    /\ noCacheSince' = FALSE
    /\ staleSince' = FALSE
    /\ UNCHANGED <<kpc, pending, out, text>>
    /\ UNCHANGED nonKvVars

\* chat_no_cache(system, extra, max_tokens), lines 121-129: format, tokenize with
\* BOS, reset(); the generation follows
chat_no_cache(prompt, max_tokens) ==
    /\ kpc = "idle"
    /\ n_tokens' = 0
    /\ pending' = <<"BOS", "IM">> \o tokenize(prompt)
    /\ out' = <<>>
    /\ cur' = [op |-> "nocache", h |-> NoHandle, max_tokens |-> max_tokens]
    /\ kpc' = "gen"
    /\ noCacheSince' = TRUE
    /\ UNCHANGED <<kv, handle, oldHandle, text, staleSince>>
    /\ UNCHANGED nonKvVars

\* chat_with_cache without the rewind of line 148
chat_with_cache_no_rewind(h, user, max_tokens) ==
    /\ kpc = "idle"
    /\ h # NoHandle
    /\ n_tokens' = n_tokens
    /\ pending' = <<"IM">> \o tokenize(strip(user))
    /\ out' = <<>>
    /\ cur' = [op |-> "cache", h |-> h, max_tokens |-> max_tokens]
    /\ kpc' = "gen"
    /\ staleSince' = (staleSince \/ h # handle)
    /\ UNCHANGED <<kv, handle, oldHandle, text, noCacheSince>>
    /\ UNCHANGED nonKvVars

\* chat_with_cache(handle, system, extra, max_tokens), lines 148-149: rewind
\* n_tokens to handle.prefix_len, build the user turn; the generation follows
chat_with_cache(h, user, max_tokens) ==
    /\ kpc = "idle"
    /\ h # NoHandle
    /\ n_tokens' = h.prefix_len
    /\ pending' = <<"IM">> \o tokenize(strip(user))
    /\ out' = <<>>
    /\ cur' = [op |-> "cache", h |-> h, max_tokens |-> max_tokens]
    /\ kpc' = "gen"
    /\ staleSince' = (staleSince \/ h # handle)
    /\ UNCHANGED <<kv, handle, oldHandle, text, noCacheSince>>
    /\ UNCHANGED nonKvVars

\* What _generate_tokens does with the tokens o yielded so far, lines 180-188:
\* "stop" and the tokens it returns, "max" when the budget is used up, else "more".
\* Variant that tests the budget before the stop string.
GenVerdictBudgetFirst(o, stopStr, max_tokens) ==
    IF Len(o) >= max_tokens
    THEN [kind |-> "max", tokens |-> o]
    ELSE IF stopStr # <<>> /\ Contains(detokenize(o), stopStr)
    THEN [kind |-> "stop", tokens |-> tokenize(SplitFirst(detokenize(o), stopStr))]
    ELSE [kind |-> "more", tokens |-> o]

\* Variant whose budget test is len(out) > max_tokens.
GenVerdictLateBudget(o, stopStr, max_tokens) ==
    IF stopStr # <<>> /\ Contains(detokenize(o), stopStr)
    THEN [kind |-> "stop", tokens |-> tokenize(SplitFirst(detokenize(o), stopStr))]
    ELSE IF Len(o) > max_tokens
    THEN [kind |-> "max", tokens |-> o]
    ELSE [kind |-> "more", tokens |-> o]

GenVerdict(o, stopStr, max_tokens) ==
    IF stopStr # <<>> /\ Contains(detokenize(o), stopStr)
    THEN [kind |-> "stop", tokens |-> tokenize(SplitFirst(detokenize(o), stopStr))]
    ELSE IF Len(o) >= max_tokens
    THEN [kind |-> "max", tokens |-> o]
    ELSE [kind |-> "more", tokens |-> o]

\* One round of the loop of _generate_tokens (lines 171-188) over llm.generate:
\* the pending tokens are evaluated, the model samples a token, and the loop
\* goes on, or the call returns detokenize(gen_tokens).strip() (lines 136, 157).
\* token is the token the model samples.
generate_step(token) ==
    /\ kpc = "gen"
    /\ kv' = eval(kv, n_tokens, pending)
    /\ n_tokens' = n_tokens + Len(pending)
    /\  LET o == Append(out, token)
            stopStr == Stop      \* the stop of _format_messages (lines 110, 122)
            v == GenVerdict(o, stopStr, cur.max_tokens)
        IN  /\ out' = o
            /\ IF v.kind = "more"
               THEN /\ pending' = <<token>>
                    /\ UNCHANGED <<kpc, text>>
               ELSE /\ pending' = <<>>
                    /\ kpc' = "idle"
                    /\ text' = strip(detokenize(v.tokens))
    /\ UNCHANGED <<handle, oldHandle, cur, noCacheSince, staleSince>>
    /\ UNCHANGED nonKvVars

KvNext ==
    \/ \E paragraph \in Texts : ingest_paragraph(paragraph)
    \/ \E prompt \in Texts, m \in 1..MaxKvTokens : chat_no_cache(prompt, m)
    \/ \E h \in {handle, oldHandle}, user \in Texts, m \in 1..MaxKvTokens :
          chat_with_cache(h, user, m)
    \/ \E token \in KvGenTokens : generate_step(token)

\* Generation specification: one paragraph and one prompt, every token stream of
\* up to MaxTokens tokens over GenTokens.
GenNext ==
    \/ ingest_paragraph(GenText)
    \/ \E m \in 1..MaxTokens : chat_no_cache(GenText, m)
    \/ \E m \in 1..MaxTokens : chat_with_cache(handle, GenText, m)
    \/ \E token \in GenTokens : generate_step(token)

(***************************************************************************)
(* _extract_last_json_object and json.JSONDecoder.raw_decode               *)
(*                                                                         *)
(* Characters are one-character strings; "dq" stands for the double quote. *)
(* The decoder knows strings (no escapes), numbers made of the digits 1    *)
(* and 2, objects, whitespace, ':' and ','.                                *)
(***************************************************************************)
DQ == "dq"
NoJson == <<"None">>                 \* the return value None
JsonChars == {"{", "}", DQ, ":", "1"}
IsDigit(c) == c \in {"1", "2"}

Example8 ==      \* sure, here you go: {"a":1} thanks {"a":2}
    <<"s", "u", "r", "e", ",", " ", "h", "e", "r", "e", " ", "y", "o", "u", " ",
      "g", "o", ":", " ", "{", DQ, "a", DQ, ":", "1", "}", " ", "t", "h", "a",
      "n", "k", "s", " ", "{", DQ, "a", DQ, ":", "2", "}">>
ExampleString == <<"{", DQ, "a", DQ, ":", DQ, "{", "}", DQ, "}">>   \* {"a":"{}"}
ExampleTwoKeys ==                    \* x {"a": 1, "b":{"a":2}} y
    <<"x", " ", "{", DQ, "a", DQ, ":", " ", "1", ",", " ", DQ, "b", DQ, ":",
      "{", DQ, "a", DQ, ":", "2", "}", "}", " ", "y">>
JsonExamples == {Example8, ExampleString, ExampleTwoKeys}

JsonTexts == (UNION {[1..n -> JsonChars] : n \in 0..MaxJsonLen}) \cup JsonExamples

\* WHITESPACE.match(s, i).end()
RECURSIVE SkipWs(_, _)
SkipWs(s, i) == IF i <= Len(s) /\ s[i] = " " THEN SkipWs(s, i + 1) ELSE i

\* s[i:i+1]
CharAt(s, i) == IF i >= 1 /\ i <= Len(s) THEN s[i] ELSE ""

\* scanstring(s, i): i is the index after the opening quote; the index after the
\* closing quote, 0 when the string is not terminated
ScanString(s, i) ==
    LET qs == {j \in i..Len(s) : s[j] = DQ}
    IN  IF qs = {} THEN 0 ELSE (CHOOSE j \in qs : \A k \in qs : j <= k) + 1

\* the end of the run of digits that starts before i
RECURSIVE ScanNumber(_, _)
ScanNumber(s, i) == IF i <= Len(s) /\ IsDigit(s[i]) THEN ScanNumber(s, i + 1) ELSE i

RECURSIVE ScanOnce(_, _)
RECURSIVE ScanPairs(_, _)

\* JSONObject((s, end)): end is the index after '{'; the index after the matching
\* '}', 0 for a JSONDecodeError
JSONObject(s, end) ==
    LET e == IF CharAt(s, end) # DQ THEN SkipWs(s, end) ELSE end
    IN  IF CharAt(s, e) = "}" THEN e + 1
        ELSE IF CharAt(s, e) # DQ THEN 0
        ELSE ScanPairs(s, e + 1)

\* the `while True` loop of JSONObject: i is the index after a key's opening quote
ScanPairs(s, i) ==
    LET k == ScanString(s, i)
        c == IF CharAt(s, k) = ":" THEN k ELSE SkipWs(s, k)
        v == ScanOnce(s, SkipWs(s, c + 1))
        n == SkipWs(s, v)
        m == SkipWs(s, n + 1)
    IN  IF k = 0 \/ CharAt(s, c) # ":" \/ v = 0 THEN 0
        ELSE IF CharAt(s, n) = "}" THEN n + 1
        ELSE IF CharAt(s, n) # "," THEN 0
        ELSE IF CharAt(s, m) # DQ THEN 0
        ELSE ScanPairs(s, m + 1)

\* scan_once(s, i): the index after the JSON value that starts at i, 0 for none
ScanOnce(s, i) ==
    IF CharAt(s, i) = DQ THEN ScanString(s, i + 1)
    ELSE IF CharAt(s, i) = "{" THEN JSONObject(s, i + 1)
    ELSE IF IsDigit(CharAt(s, i)) THEN ScanNumber(s, i + 1)
    ELSE 0

\* decoder.raw_decode(s): the number of characters of the value at the start of
\* s, -1 for a JSONDecodeError
raw_decode(s) == ScanOnce(s, 1) - 1

\* the loop of lines 227-236 from index idx on, with last_json = last
RECURSIVE ExtractFrom(_, _, _)
ExtractFrom(t, idx, last) ==
    IF idx > Len(t) THEN last
    ELSE IF t[idx] # "{" THEN ExtractFrom(t, idx + 1, last)
    ELSE LET end == raw_decode(SubSeq(t, idx, Len(t)))
             raw == strip(SubSeq(t, idx, idx + end - 1))
         IN  IF end < 0 THEN ExtractFrom(t, idx + 1, last)
             ELSE ExtractFrom(t, idx + 1, IF raw # <<>> THEN raw ELSE last)

_extract_last_json_object(t) == ExtractFrom(t, 1, NoJson)

NoCall == [call |-> "none", kind |-> "none", value |-> <<>>, msg |-> <<>>]

\* json.loads(t) succeeds: one value with only whitespace around it
json_loads_ok(t) ==
    LET e == ScanOnce(t, SkipWs(t, 1))
    IN  e # 0 /\ SkipWs(t, e) = Len(t) + 1

\* the value json.loads(t) returns, written without the whitespace between
\* its tokens (inStr: position i lies inside a string)
RECURSIVE LoadsFrom(_, _, _)
LoadsFrom(t, i, inStr) ==
    IF i > Len(t) THEN <<>>
    ELSE IF t[i] = DQ THEN <<DQ>> \o LoadsFrom(t, i + 1, ~inStr)
    ELSE IF t[i] = " " /\ ~inStr THEN LoadsFrom(t, i + 1, inStr)
    ELSE <<t[i]>> \o LoadsFrom(t, i + 1, inStr)

json_loads(t) == LoadsFrom(t, 1, FALSE)

JsonInit ==
    /\ jtext \in JsonTexts
    /\ jres = NoJson
    /\ jpc = "ready"
    /\ jret = NoCall

JsonIdle ==
    /\ jtext = <<>>
    /\ jres = NoJson
    /\ jpc = "done"
    /\ jret = NoCall

\* json_schema_chat_with_cache / _no_cache, lines 198 and 215
extract ==
    /\ jpc = "ready"
    /\ jres' = _extract_last_json_object(jtext)
    /\ jpc' = "done"
    /\ UNCHANGED <<jtext, jret>>
    /\ UNCHANGED nonJsonVars

\* json_schema_chat_no_cache / json_schema_chat_with_cache, lines 197-204 and
\* 214-221, once the chat call has returned the stripped text jtext
json_schema_chat_kv ==
    /\ jpc = "ready"
    /\ LET json_text == _extract_last_json_object(jtext)
       IN  /\ jres' = json_text
           /\ jret' = IF json_text = NoJson \/ ~json_loads_ok(json_text)
                      THEN [call |-> "kv", kind |-> "ValueError", value |-> <<>>,
                            msg |-> jtext]
                      ELSE [call |-> "kv", kind |-> "value",
                            value |-> json_loads(json_text), msg |-> <<>>]
    /\ jpc' = "done"
    /\ UNCHANGED jtext
    /\ UNCHANGED nonJsonVars

\* OpenAICompatChatClient.json_schema_chat, lines 144-145, once the backend has
\* answered 200 with the message content jtext: json.loads of the stripped
\* content, whose JSONDecodeError message holds a position and not the text
json_schema_chat ==
    /\ jpc = "ready"
    /\ LET content == strip(jtext)
       IN  jret' = IF json_loads_ok(content)
                   THEN [call |-> "http", kind |-> "value",
                         value |-> json_loads(content), msg |-> <<>>]
                   ELSE [call |-> "http", kind |-> "JSONDecodeError", value |-> <<>>,
                         msg |-> <<>>]
    /\ jpc' = "http"
    /\ UNCHANGED <<jtext, jres>>
    /\ UNCHANGED nonJsonVars

JsonNext ==
    \/ extract
    \/ json_schema_chat_kv
    \/ json_schema_chat

(***************************************************************************)
(* OpenAICompatChatClient.chat_stream (HTTP 200)                           *)
(*                                                                         *)
(* A line is a record: kind "blank" (empty line), "other" (no data:        *)
(* prefix), "done" (data: [DONE]), "badjson" (data: with a payload that is *)
(* not JSON), "nonobject" (data: with a JSON value that is not an object)  *)
(* or "frame" (data: with a JSON object), with the content of              *)
(* choices[0].delta and of choices[0].message (Null when absent or null).  *)
(***************************************************************************)
Null == "NULL"
Contents == {Null, "", "Hi", " there"}
Line(k, d, m) == [kind |-> k, delta |-> d, message |-> m]
Frames == {Line("frame", d, m) : d \in Contents, m \in {Null, "full"}}
LineSet ==
    {Line(k, Null, Null) : k \in {"blank", "other", "done", "badjson", "nonobject"}}
        \cup Frames

StreamInit ==
    /\ lines \in UNION {[1..n -> LineSet] : n \in 0..MaxLines}
    /\ spos = 0
    /\ yielded = <<>>
    /\ spc = "iter"

StreamIdle ==
    /\ lines = <<>>
    /\ spos = 0
    /\ yielded = <<>>
    /\ spc = "done"

\* lines 120-126: the chunk of a parsed event
Chunk(l) == IF l.delta # Null THEN l.delta ELSE l.message

\* one round of the loop of lines 103-128 in which [DONE] is skipped like a
\* line that is not JSON
chat_stream_line_no_break ==
    /\ spc = "iter"
    /\ IF spos = Len(lines)
       THEN /\ spc' = "done"
            /\ UNCHANGED <<spos, yielded>>
       ELSE LET l == lines[spos + 1]
            IN  /\ spos' = spos + 1
                /\ CASE l.kind \in {"blank", "other", "badjson", "done"} ->
                            UNCHANGED <<spc, yielded>>
                     [] l.kind = "nonobject" ->
                            spc' = "raised" /\ UNCHANGED yielded
                     [] l.kind = "frame" ->
                            /\ yielded' = IF Chunk(l) \notin {Null, ""}
                                          THEN Append(yielded, Chunk(l))
                                          ELSE yielded
                            /\ UNCHANGED spc
    /\ UNCHANGED lines
    /\ UNCHANGED nonStreamVars

\* one round of the loop of lines 103-128 (or its end when the stream ends)
chat_stream_line ==
    /\ spc = "iter"
    /\ IF spos = Len(lines)
       THEN /\ spc' = "done"
            /\ UNCHANGED <<spos, yielded>>
       ELSE LET l == lines[spos + 1]
            IN  /\ spos' = spos + 1
                /\ CASE l.kind \in {"blank", "other", "badjson"} ->
                            UNCHANGED <<spc, yielded>>
                     [] l.kind = "done" ->
                            spc' = "done" /\ UNCHANGED yielded
                     [] l.kind = "nonobject" ->
                            spc' = "raised" /\ UNCHANGED yielded
                     [] l.kind = "frame" ->
                            /\ yielded' = IF Chunk(l) \notin {Null, ""}
                                          THEN Append(yielded, Chunk(l))
                                          ELSE yielded
                            /\ UNCHANGED spc
    /\ UNCHANGED lines
    /\ UNCHANGED nonStreamVars

StreamNext == chat_stream_line

(***************************************************************************)
(* OpenAICompatChatClient: chat, chat_message, chat_stream and             *)
(* json_schema_chat against one backend response                           *)
(*                                                                         *)
(* The body of a response is a text (a sequence of characters) and, when   *)
(* it is JSON, the part of it the calls read: whether "choices" is         *)
(* missing, null, an empty list or a list with one choice, the same for    *)
(* the choice's "message", and for its "content" (missing, null or a       *)
(* string).  notjson marks a body r.json() cannot decode.                  *)
(***************************************************************************)
Ops == {"chat", "chat_message", "chat_stream", "json_schema_chat"}
Statuses == {200, 201, 404, 503}
NoOutcome == [kind |-> "none", status |-> 0, msg |-> <<>>, text |-> <<>>]

\* a body text of n characters whose characters tell their positions apart
BodyText(n) == [i \in 1..n |-> i % 7]
BodyLens == {0, 1} \cup ((BodyLimit - 1)..(BodyLimit + MaxExtra))

Data(c, m, k, t) == [choices |-> c, message |-> m, contentKind |-> k, content |-> t]
ContentTexts == {<<>>, <<"h", "i">>, <<" ", "h", "i", " ">>, <<" ">>, <<"{", "}">>}
Datas ==
    {Data(c, "missing", "missing", <<>>) : c \in {"notjson", "missing", "null", "empty"}}
      \cup {Data("one", m, "missing", <<>>) : m \in {"missing", "null", "empty"}}
      \cup {Data("one", "obj", k, <<>>) : k \in {"missing", "null"}}
      \cup {Data("one", "obj", "str", t) : t \in ContentTexts}

Responses ==
    {[status |-> st, text |-> BodyText(n), data |-> Data("notjson", "missing", "missing", <<>>)] :
        st \in Statuses \ {200}, n \in BodyLens}
      \cup {[status |-> st, text |-> <<>>, data |-> dt] : st \in Statuses, dt \in Datas}

HttpInit ==
    /\ resp \in Responses
    /\ hrets = [op \in Ops |-> NoOutcome]
    /\ hreqs = [op \in Ops |-> 0]

HttpIdle ==
    /\ resp = [status |-> 200, text |-> <<>>, data |-> Data("empty", "missing", "missing", <<>>)]
    /\ hrets = [op \in Ops |-> NoOutcome]
    /\ hreqs = [op \in Ops |-> 0]

\* r.text[:999]
TruncateShort(t) == SubSeq(t, 1, IF Len(t) < BodyLimit - 1 THEN Len(t) ELSE BodyLimit - 1)

\* r.text[:1000]
Truncate(t) == SubSeq(t, 1, IF Len(t) < BodyLimit THEN Len(t) ELSE BodyLimit)

\* lines 28-29, 43-45, 74-75: RuntimeError(f"llama-server HTTP {status}: {text[:1000]}")
HttpError(r) ==
    [kind |-> "RuntimeError", status |-> r.status, msg |-> Truncate(r.text), text |-> <<>>]

Raised(k) == [kind |-> k, status |-> 0, msg |-> <<>>, text |-> <<>>]
Returned(k, t) == [kind |-> k, status |-> 0, msg |-> <<>>, text |-> t]

\* data["choices"][0]["message"]["content"] (lines 61 and 144): the error it
\* raises, "ok" when the content is reached
ContentPath(dt) ==
    CASE dt.choices = "notjson" -> "JSONDecodeError"
      [] dt.choices = "missing" -> "KeyError"
      [] dt.choices = "null"    -> "TypeError"
      [] dt.choices = "empty"   -> "IndexError"
      [] dt.message = "missing" -> "KeyError"
      [] dt.message = "null"    -> "TypeError"
      [] dt.message = "empty"   -> "KeyError"
      [] dt.contentKind = "missing" -> "KeyError"
      [] OTHER -> "ok"

\* the call op ends as o after one more request
Finish(op, o) ==
    /\ hrets[op] = NoOutcome
    /\ hrets' = [hrets EXCEPT ![op] = o]
    /\ hreqs' = [hreqs EXCEPT ![op] = @ + 1]
    /\ UNCHANGED resp
    /\ UNCHANGED nonHttpVars

\* chat(), lines 42-61
chat ==
    Finish("chat",
        IF resp.status # 200 THEN HttpError(resp)
        ELSE IF ContentPath(resp.data) # "ok" THEN Raised(ContentPath(resp.data))
        ELSE Returned("text", strip(resp.data.content)))

\* chat_message(), lines 73-85
chat_message ==
    Finish("chat_message",
        IF resp.status # 200 THEN HttpError(resp)
        ELSE IF resp.data.choices = "notjson" THEN Raised("JSONDecodeError")
        ELSE IF resp.data.choices \in {"missing", "null", "empty"}
                \/ resp.data.message \in {"missing", "null", "empty"}
        THEN Returned("message", <<>>)
        ELSE Returned("message", resp.data.content))

\* chat_stream() up to the first line of the stream, lines 91-103 with _post_json
chat_stream ==
    Finish("chat_stream",
        IF resp.status # 200 THEN HttpError(resp) ELSE Returned("stream", <<>>))

\* json_schema_chat(), lines 131-145 with _post_json
json_schema_chat_post ==
    Finish("json_schema_chat",
        IF resp.status # 200 THEN HttpError(resp)
        ELSE IF ContentPath(resp.data) # "ok" THEN Raised(ContentPath(resp.data))
        ELSE IF json_loads_ok(strip(resp.data.content))
        THEN Returned("value", json_loads(strip(resp.data.content)))
        ELSE Raised("JSONDecodeError"))

HttpNext ==
    \/ chat
    \/ chat_message
    \/ chat_stream
    \/ json_schema_chat_post

(***************************************************************************)
(* config_resolver: resolve_server_config and resolve_request_config       *)
(*                                                                         *)
(* A dict is a function from its keys.  A value is a record [kind, v]:     *)
(* None, an int (v = <<n>>; temperatures are in tenths), a str or a Path   *)
(* (v = the components of the path, "/" first for an absolute path and "~" *)
(* first for a path under the home directory).                             *)
(***************************************************************************)
NoneV == [kind |-> "none", v |-> <<>>]
IntV(n) == [kind |-> "int", v |-> <<n>>]
StrV(p) == [kind |-> "str", v |-> p]
PathV(p) == [kind |-> "path", v |-> p]
EmptyMap == [k \in {} |-> NoneV]

\* the fields of LlmRequestConfig and of LlamaServerConfig
RequestKeys ==
    {"max_tokens", "temperature", "top_p", "top_k", "repeat_penalty", "seed", "stop",
     "response_format", "stream"}
ServerKeys ==
    {"server_bin", "model_path", "model_alias", "host", "port", "n_ctx", "n_threads",
     "n_gpu_layers", "n_batch", "seed", "rope_freq_base", "rope_freq_scale",
     "mmproj_path"}

TaskDefault(m, t) == ("max_tokens" :> IntV(m)) @@ ("temperature" :> IntV(t))

TASK_DEFAULTS ==
    ("answer" :> TaskDefault(128, 0)) @@
    ("stream_answer" :> TaskDefault(128, 0)) @@
    ("metadata_extraction" :> TaskDefault(1024, 0)) @@
    ("grammar_correction" :> TaskDefault(128, 0)) @@
    ("topic_sentence_generate" :> TaskDefault(1024, 5)) @@
    ("topic_sentence_analyze" :> TaskDefault(1024, 0)) @@
    ("cause_effect_feedback" :> TaskDefault(512, 2)) @@
    ("compare_contrast_feedback" :> TaskDefault(512, 2)) @@
    ("hedging_feedback" :> TaskDefault(512, 2)) @@
    ("content_compare" :> TaskDefault(512, 2)) @@
    ("content_filter" :> TaskDefault(256, 0)) @@
    ("conclusion_feedback" :> TaskDefault(512, 2)) @@
    ("summarize_personalize" :> TaskDefault(512, 2))

\* the task names callers pass: the registered ones and "default" (container.py)
TaskNames == (DOMAIN TASK_DEFAULTS) \cup {"default"}

\* Path(p).expanduser().resolve() in the environment env
Resolve(p, env) ==
    IF p = <<>> THEN env.cwd
    ELSE IF p[1] = "/" THEN p
    ELSE IF p[1] = "~" THEN env.home \o Tail(p)
    ELSE env.cwd \o p

\* every dict whose keys are among keys and whose value at k is in dom[k]
Dicts(keys, dom) ==
    UNION {{f \in [S -> UNION {dom[k] : k \in S}] : \A k \in S : f[k] \in dom[k]} :
              S \in SUBSET keys}

Envs == {[cwd |-> <<"/", "work">>, home |-> <<"/", "home">>],
         [cwd |-> <<"/", "tmp">>, home |-> <<"/", "home">>],
         [cwd |-> <<"/", "work">>, home |-> <<"/", "root">>]}

\* the llama section of the app config: the paths and the global defaults
AppConfigs ==
    {[llama_server_bin_path |-> b, llama_gguf_path |-> StrV(<<"m.gguf">>),
      default_max_tokens |-> IntV(m), default_temperature |-> IntV(t)] :
        b \in {NoneV, StrV(<<>>), StrV(<<".appdata", "llama-server">>),
               StrV(<<"/", "opt", "llama-server">>)},
        m \in {64, 256}, t \in {0, 7}}

RequestOverrides ==
    Dicts({"max_tokens", "temperature", "stop", "max_token"},
          ("max_tokens" :> {IntV(1024), IntV(32), IntV(0)}) @@
          ("temperature" :> {IntV(3)}) @@
          ("stop" :> {StrV(<<"</s>">>)}) @@
          ("max_token" :> {IntV(16)}))

ServerOverrides ==
    Dicts({"server_bin", "port", "server_binary"},
          ("server_bin" :> {NoneV, StrV(<<"bin", "llama-server">>),
                            StrV(<<"~", "llama-server">>),
                            PathV(<<"/", "usr", "llama-server">>)}) @@
          ("port" :> {IntV(9090)}) @@
          ("server_binary" :> {StrV(<<"bin", "llama-server">>)}))

ConfigInputs ==
    {[op |-> "request", task |-> tk, app |-> a, overrides |-> o, env |-> e] :
        tk \in TaskNames,
        a \in {x \in AppConfigs : x.llama_server_bin_path = NoneV},
        o \in RequestOverrides,
        e \in {x \in Envs : x.cwd = <<"/", "work">>}}
      \cup
    {[op |-> "server", task |-> "default", app |-> a, overrides |-> o, env |-> e] :
        a \in {x \in AppConfigs : x.default_max_tokens = IntV(256)
                                  /\ x.default_temperature = IntV(0)},
        o \in ServerOverrides,
        e \in Envs}

NoConfig == [kind |-> "none", values |-> EmptyMap]
ConfigError == [kind |-> "ValueError", values |-> EmptyMap]

ConfigInit ==
    /\ cfgIn \in ConfigInputs
    /\ cfgOut = NoConfig
    /\ cfgPrev = NoConfig

ConfigIdle ==
    /\ cfgIn = [op |-> "none", task |-> "default", app |-> EmptyMap,
                overrides |-> EmptyMap, env |-> EmptyMap]
    /\ cfgOut = NoConfig
    /\ cfgPrev = NoConfig

\* _apply_overrides that skips the unknown keys instead of raising
_apply_overrides_lenient(values, overrides) ==
    [ok |-> TRUE,
     values |-> [k \in DOMAIN values |->
                    IF k \in DOMAIN overrides THEN overrides[k] ELSE values[k]]]

\* _apply_overrides(values, overrides), lines 46-54: ok is FALSE for the
\* ValueError of line 51
_apply_overrides(values, overrides) ==
    IF DOMAIN overrides = {} THEN [ok |-> TRUE, values |-> values]
    ELSE IF (DOMAIN overrides) \ (DOMAIN values) # {}
    THEN [ok |-> FALSE, values |-> values]
    ELSE [ok |-> TRUE,
          values |-> [k \in DOMAIN values |->
                         IF k \in DOMAIN overrides THEN overrides[k] ELSE values[k]]]

\* lines 63-81: the values taken from the app config
ServerBase(llama, env) ==
    [k \in ServerKeys |->
        CASE k = "server_bin" ->
                IF llama.llama_server_bin_path \in {NoneV, StrV(<<>>)} THEN NoneV
                ELSE PathV(Resolve(llama.llama_server_bin_path.v, env))
          [] k = "model_path" -> PathV(Resolve(llama.llama_gguf_path.v, env))
          [] k = "model_alias" -> StrV(<<"Default Model">>)
          [] k = "host" -> StrV(<<"127.0.0.1">>)
          [] k = "port" -> IntV(8080)
          [] k = "n_ctx" -> IntV(4096)
          [] OTHER -> NoneV]

\* lines 85-88: the path-valued keys that are not yet Paths are resolved
NormalizePaths(values, env) ==
    [k \in DOMAIN values |->
        IF k \in {"server_bin", "model_path", "mmproj_path"}
           /\ values[k].kind \notin {"none", "path"}
        THEN PathV(Resolve(values[k].v, env))
        ELSE values[k]]

\* resolve_server_config without the test of lines 90-91
resolve_server_config_unchecked ==
    /\ cfgIn.op = "server"
    /\ cfgOut = NoConfig
    /\ LET r == _apply_overrides(ServerBase(cfgIn.app, cfgIn.env), cfgIn.overrides)
           values == NormalizePaths(r.values, cfgIn.env)
       IN  cfgOut' = IF ~r.ok THEN ConfigError
                     ELSE [kind |-> "config", values |-> values]
    /\ UNCHANGED <<cfgIn, cfgPrev>>
    /\ UNCHANGED nonConfigVars

\* resolve_server_config(app_cfg, server_overrides=...), lines 57-95
resolve_server_config ==
    /\ cfgIn.op = "server"
    /\ cfgOut = NoConfig
    /\ LET r == _apply_overrides(ServerBase(cfgIn.app, cfgIn.env), cfgIn.overrides)
           values == NormalizePaths(r.values, cfgIn.env)
       IN  cfgOut' = IF ~r.ok THEN ConfigError
                     ELSE IF values["server_bin"] = NoneV THEN ConfigError
                     ELSE [kind |-> "config", values |-> values]
    /\ UNCHANGED <<cfgIn, cfgPrev>>
    /\ UNCHANGED nonConfigVars

\* lines 105-115: the global defaults
RequestBase(llama) ==
    [k \in RequestKeys |->
        CASE k = "max_tokens" -> llama.default_max_tokens
          [] k = "temperature" -> llama.default_temperature
          [] OTHER -> NoneV]

\* resolve_request_config that applies the task defaults after the overrides
resolve_request_config_task_last ==
    /\ cfgIn.op = "request"
    /\ cfgOut = NoConfig
    /\ LET r == _apply_overrides(RequestBase(cfgIn.app), cfgIn.overrides)
           t == IF cfgIn.task \in DOMAIN TASK_DEFAULTS
                THEN _apply_overrides(r.values, TASK_DEFAULTS[cfgIn.task])
                ELSE r
       IN  cfgOut' = IF ~r.ok \/ ~t.ok THEN ConfigError
                     ELSE [kind |-> "config", values |-> t.values]
    /\ UNCHANGED <<cfgIn, cfgPrev>>
    /\ UNCHANGED nonConfigVars

\* resolve_request_config(task_name, app_cfg, request_overrides=...), lines 98-124
resolve_request_config ==
    /\ cfgIn.op = "request"
    /\ cfgOut = NoConfig
    /\ LET t == IF cfgIn.task \in DOMAIN TASK_DEFAULTS
                THEN _apply_overrides(RequestBase(cfgIn.app), TASK_DEFAULTS[cfgIn.task])
                ELSE [ok |-> TRUE, values |-> RequestBase(cfgIn.app)]
           r == _apply_overrides(t.values, cfgIn.overrides)
       IN  cfgOut' = IF ~t.ok \/ ~r.ok THEN ConfigError
                     ELSE [kind |-> "config", values |-> r.values]
    /\ UNCHANGED <<cfgIn, cfgPrev>>
    /\ UNCHANGED nonConfigVars

\* between two calls with the same app config and overrides the process's
\* working directory or HOME may have changed; the first outcome is kept
call_again ==
    /\ cfgOut # NoConfig
    /\ cfgPrev = NoConfig
    /\ cfgPrev' = cfgOut
    /\ cfgOut' = NoConfig
    /\ \E e \in Envs : cfgIn' = [cfgIn EXCEPT !.env = e]
    /\ UNCHANGED nonConfigVars

ConfigNext ==
    \/ resolve_server_config
    \/ resolve_request_config
    \/ call_again

(***************************************************************************)
(* tasks.grammar_correction.correct_sentences, for one sentence            *)
(*                                                                         *)
(* Texts are sequences of characters; reasoning_content is NoneV or a      *)
(* StrV.  The message is the one chat_message returned.                    *)
(***************************************************************************)
Terminators == {".", "!", "?"}
TraceChars == {"x", ".", "?", " "}
Traces == UNION {[1..n -> TraceChars] : n \in 0..MaxTrace}
Sentences == {<<>>, <<" ">>, <<"a">>, <<" ", "a", " ">>}
MessageContents == {<<>>, <<" ">>, <<"b">>, <<" ", "b", " ">>}
Families == {"thinking", "instruct"}

GrammarInputs ==
    {[sentence |-> st, content |-> c, reasoning |-> r, family |-> f] :
        st \in Sentences, c \in MessageContents,
        r \in {NoneV} \cup {StrV(t) : t \in Traces}, f \in Families}

NoResult == [kind |-> "none", final |-> <<>>, thinking |-> NoneV, called |-> FALSE]

GrammarInit ==
    /\ gIn \in GrammarInputs
    /\ gOut = NoResult

GrammarIdle ==
    /\ gIn = [sentence |-> <<>>, content |-> <<>>, reasoning |-> NoneV,
              family |-> "instruct"]
    /\ gOut = NoResult

\* the loop of lines 27-33 from character i on: the value of last_sentence and
\* of sentence when the loop ends
RECURSIVE ScanSentences(_, _, _, _)
ScanSentences(thinking, i, sentence, last_sentence) ==
    IF i > Len(thinking) THEN [last_sentence |-> last_sentence, sentence |-> sentence]
    ELSE LET sn == Append(sentence, thinking[i])
         IN  IF thinking[i] \in Terminators
             THEN ScanSentences(thinking, i + 1, <<>>,
                                IF strip(sn) # <<>> THEN strip(sn) ELSE last_sentence)
             ELSE ScanSentences(thinking, i + 1, sn, last_sentence)

\* lines 25-36: the text derived from the reasoning trace
LastSentence(thinking) ==
    LET r == ScanSentences(thinking, 1, <<>>, <<>>)
    IN  IF r.last_sentence # <<>> THEN r.last_sentence
        ELSE strip(IF r.sentence # <<>> THEN r.sentence ELSE thinking)

\* (message.reasoning_content or "").strip() or None, line 22
Thinking(reasoning) ==
    IF reasoning = NoneV \/ strip(reasoning.v) = <<>> THEN NoneV
    ELSE StrV(strip(reasoning.v))

\* lines 23-38 with the family test of line 24 left out
FinalAnyFamily(stext, content, thinking, family) ==
    LET final == strip(content)
        derived == IF final = <<>> /\ thinking # NoneV
                   THEN LastSentence(thinking.v) ELSE final
    IN  IF derived = <<>> THEN stext ELSE derived

\* lines 23-38: the final stext for the stripped sentence
Final(stext, content, thinking, family) ==
    LET final == strip(content)
        derived == IF final = <<>> /\ family = "thinking" /\ thinking # NoneV
                   THEN LastSentence(thinking.v) ELSE final
    IN  IF derived = <<>> THEN stext ELSE derived

\* one round of the loop of correct_sentences, lines 16-39
correct_sentences ==
    /\ gOut = NoResult
    /\ LET stext == strip(gIn.sentence)
           thinking == Thinking(gIn.reasoning)
       IN  gOut' = IF stext = <<>>
                   THEN [kind |-> "result", final |-> gIn.sentence, thinking |-> NoneV,
                         called |-> FALSE]
                   ELSE [kind |-> "result",
                         final |-> Final(stext, gIn.content, thinking, gIn.family),
                         thinking |-> thinking, called |-> TRUE]
    /\ UNCHANGED gIn
    /\ UNCHANGED nonGrammarVars

GrammarNext == correct_sentences

(***************************************************************************)
(* LlmServiceKV: prepare_cache and the tasks, as calls on the kv_client    *)
(*                                                                         *)
(* A handle is named by the number of the ingestion that returned it.      *)
(* Every kv_client call resets, rewinds, evaluates or generates on the     *)
(* model.                                                                  *)
(***************************************************************************)
CacheBoundTasks ==
    {"analyze_topic_sentence", "cause_effect_feedback", "compare_contrast_feedback",
     "hedging_feedback", "content_feedback"}
RoutedTasks == {"cause_effect_feedback", "compare_contrast_feedback", "hedging_feedback"}

NoSvcCall == [task |-> "none", kind |-> "none"]
Ingests(log) == Cardinality({i \in 1..Len(log) : log[i].op = "ingest_paragraph"})
KvCall(op, h) == [op |-> op, h |-> h]

ServiceInit ==
    /\ svcCache = None
    /\ svcLog = <<>>
    /\ svcRet = NoSvcCall

ServiceIdle == ServiceInit

\* prepare_cache, lines 27-33
prepare_cache ==
    /\ Len(svcLog) < MaxSvcLog
    /\ svcLog' = Append(svcLog, KvCall("ingest_paragraph", Ingests(svcLog) + 1))
    /\ svcCache' = Ingests(svcLog) + 1
    /\ svcRet' = [task |-> "prepare_cache", kind |-> "ok"]
    /\ UNCHANGED nonServiceVars

\* extract_metadata (lines 40-90) and correct_sentences (lines 92-119) with one
\* text to send: a chat_no_cache call
no_cache_task ==
    /\ Len(svcLog) < MaxSvcLog
    /\ svcLog' = Append(svcLog, KvCall("chat_no_cache", None))
    /\ \E t \in {"extract_metadata", "correct_sentences"} :
          svcRet' = [task |-> t, kind |-> "ok"]
    /\ UNCHANGED svcCache
    /\ UNCHANGED nonServiceVars

\* analyze_topic_sentence, lines 121-154: chat_no_cache (line 135), then
\* _require_cache (line 143), then chat_with_cache on the handle
analyze_topic_sentence ==
    /\ IF svcCache = None
       THEN /\ Len(svcLog) < MaxSvcLog
            /\ svcLog' = Append(svcLog, KvCall("chat_no_cache", None))
            /\ svcRet' = [task |-> "analyze_topic_sentence", kind |-> "RuntimeError"]
       ELSE /\ Len(svcLog) + 2 <= MaxSvcLog
            /\ svcLog' = svcLog \o <<KvCall("chat_no_cache", None),
                                     KvCall("chat_with_cache", svcCache)>>
            /\ svcRet' = [task |-> "analyze_topic_sentence", kind |-> "ok"]
    /\ UNCHANGED svcCache
    /\ UNCHANGED nonServiceVars

\* cause_effect_feedback, compare_contrast_feedback and hedging_feedback
\* (lines 156-196): _require_cache, then the extraction (which raises
\* ValueError on text without JSON) and one more chat_with_cache
routed_feedback(t) ==
    /\ IF svcCache = None
       THEN /\ svcLog' = svcLog
            /\ svcRet' = [task |-> t, kind |-> "RuntimeError"]
       ELSE \/ /\ Len(svcLog) < MaxSvcLog
               /\ svcLog' = Append(svcLog, KvCall("chat_with_cache", svcCache))
               /\ svcRet' = [task |-> t, kind |-> "ValueError"]
            \/ /\ Len(svcLog) + 2 <= MaxSvcLog
               /\ svcLog' = svcLog \o <<KvCall("chat_with_cache", svcCache),
                                        KvCall("chat_with_cache", svcCache)>>
               /\ svcRet' = [task |-> t, kind |-> "ok"]
    /\ UNCHANGED svcCache
    /\ UNCHANGED nonServiceVars

\* content_feedback, lines 198-203
content_feedback ==
    /\ IF svcCache = None
       THEN /\ svcLog' = svcLog
            /\ svcRet' = [task |-> "content_feedback", kind |-> "RuntimeError"]
       ELSE /\ Len(svcLog) < MaxSvcLog
            /\ svcLog' = Append(svcLog, KvCall("chat_with_cache", svcCache))
            /\ svcRet' = [task |-> "content_feedback", kind |-> "ok"]
    /\ UNCHANGED svcCache
    /\ UNCHANGED nonServiceVars

ServiceNext ==
    \/ prepare_cache
    \/ no_cache_task
    \/ analyze_topic_sentence
    \/ \E t \in RoutedTasks : routed_feedback(t)
    \/ content_feedback

(***************************************************************************)
(* Several KvCacheClient objects and callers on the shared model           *)
(*                                                                         *)
(* A model instance is its cache length n_tokens, its cache (per position  *)
(* the caller whose call evaluated the token there, 0 for none) and the    *)
(* model_path it was created with.  A chat prompt is one token.  A handle  *)
(* is its prefix_len.  Every caller constructs one client.                 *)
(***************************************************************************)
Callers == {1, 2}
ModelPath(c) == c        \* every caller asks for a model file of its own
NoPrefix == 0 - 1
\* a call in flight: n is the number of prompt tokens still to evaluate, then
\* the cache length the call has reached by its own evaluations
NoKvCall == [op |-> "none", pc |-> "idle", n |-> 0, left |-> 0]
NoClient == [llm |-> None, handle |-> NoPrefix, call |-> NoKvCall]

SharedInit ==
    /\ shared_llm = None
    /\ llms = <<>>
    /\ cl = [c \in Callers |-> NoClient]
    /\ serialized \in BOOLEAN

SharedIdle ==
    /\ shared_llm = None
    /\ llms = <<>>
    /\ cl = [c \in Callers |-> NoClient]
    /\ serialized = TRUE

\* Llama(**params)
NewLlama(path) == [n_tokens |-> 0, kv |-> [i \in 1..SharedCtx |-> 0], path |-> path]

\* a constructor that loads a model of its own for every client
KvCacheClientOwnModel(c, path) ==
    /\ cl[c].llm = None
    /\ llms' = Append(llms, NewLlama(path))
    /\ shared_llm' = Len(llms) + 1
    /\ cl' = [cl EXCEPT ![c].llm = Len(llms) + 1]
    /\ UNCHANGED serialized
    /\ UNCHANGED nonSharedVars

\* KvCacheClient(model_path=path, ...), lines 53-64
KvCacheClient(c, path) ==
    /\ cl[c].llm = None
    /\ IF shared_llm = None
       THEN /\ llms' = Append(llms, NewLlama(path))
            /\ shared_llm' = Len(llms) + 1
            /\ cl' = [cl EXCEPT ![c].llm = Len(llms) + 1]
       ELSE /\ cl' = [cl EXCEPT ![c].llm = shared_llm]
            /\ UNCHANGED <<llms, shared_llm>>
    /\ UNCHANGED serialized
    /\ UNCHANGED nonSharedVars

\* a host that starts a call whatever the other callers are doing
MayBeginUnlocked(c) == cl[c].call.pc = "idle" /\ cl[c].llm # None

\* caller c may start a call on its client: the host that serializes lets it
\* start only when no other call is in flight
MayBegin(c) ==
    /\ cl[c].call.pc = "idle"
    /\ cl[c].llm # None
    /\ serialized => \A o \in Callers \ {c} : cl[o].call.pc = "idle"

\* ingest_paragraph, lines 87-93: the prefix is formatted and tokenized
ingest_begin(c, n) ==
    /\ MayBegin(c)
    /\ cl' = [cl EXCEPT ![c].call = [op |-> "ingest", pc |-> "reset", n |-> n, left |-> 0]]
    /\ UNCHANGED <<shared_llm, llms, serialized>>
    /\ UNCHANGED nonSharedVars

\* chat_no_cache, lines 121-128
no_cache_begin(c, m) ==
    /\ MayBegin(c)
    /\ cl' = [cl EXCEPT ![c].call = [op |-> "nocache", pc |-> "reset", n |-> 1, left |-> m]]
    /\ UNCHANGED <<shared_llm, llms, serialized>>
    /\ UNCHANGED nonSharedVars

\* chat_with_cache(handle, ...), entered with a handle the caller holds
with_cache_begin(c, m) ==
    /\ MayBegin(c)
    /\ cl[c].handle # NoPrefix
    /\ cl' = [cl EXCEPT ![c].call = [op |-> "cache", pc |-> "rewind", n |-> 1, left |-> m]]
    /\ UNCHANGED <<shared_llm, llms, serialized>>
    /\ UNCHANGED nonSharedVars

\* self._llm.reset(), line 95 and line 129
step_reset(c) ==
    /\ cl[c].call.pc = "reset"
    /\ llms' = [llms EXCEPT ![cl[c].llm].n_tokens = 0]
    /\ cl' = [cl EXCEPT ![c].call.pc = "eval"]
    /\ UNCHANGED <<shared_llm, serialized>>
    /\ UNCHANGED nonSharedVars

\* self._llm.n_tokens = handle.prefix_len, line 148
step_rewind(c) ==
    /\ cl[c].call.pc = "rewind"
    /\ llms' = [llms EXCEPT ![cl[c].llm].n_tokens = cl[c].handle]
    /\ cl' = [cl EXCEPT ![c].call.pc = "eval"]
    /\ UNCHANGED <<shared_llm, serialized>>
    /\ UNCHANGED nonSharedVars

\* Llama.eval of k tokens by caller c: they go to the positions after n_tokens
EvalBy(m, c, k) ==
    [m EXCEPT !.kv = [i \in 1..SharedCtx |->
                         IF i > m.n_tokens /\ i <= m.n_tokens + k THEN c ELSE m.kv[i]],
              !.n_tokens = m.n_tokens + k]

\* the cache position a call of caller c starts from: 0 after reset(), the
\* handle's prefix_len after the rewind
Base(c) == IF cl[c].call.op = "cache" THEN cl[c].handle ELSE 0

\* self._llm.eval(prefix_tokens), line 97, and the evaluation of the prompt by
\* llm.generate, line 171; a prompt that does not fit in the context raises
step_eval(c) ==
    /\ cl[c].call.pc = "eval"
    /\ LET m == llms[cl[c].llm]
       IN  IF m.n_tokens + cl[c].call.n > SharedCtx
           THEN /\ cl' = [cl EXCEPT ![c].call = NoKvCall]
                /\ UNCHANGED llms
           ELSE /\ llms' = [llms EXCEPT ![cl[c].llm] = EvalBy(m, c, cl[c].call.n)]
                /\ cl' = [cl EXCEPT ![c].call.n = Base(c) + cl[c].call.n,
                                    ![c].call.pc = IF cl[c].call.op = "ingest"
                                                   THEN "ret" ELSE "gen"]
    /\ UNCHANGED <<shared_llm, serialized>>
    /\ UNCHANGED nonSharedVars

\* prefix_len = self._llm.n_tokens and the return of the handle, lines 98-104
step_handle(c) ==
    /\ cl[c].call.pc = "ret"
    /\ cl' = [cl EXCEPT ![c].handle = llms[cl[c].llm].n_tokens, ![c].call = NoKvCall]
    /\ UNCHANGED <<shared_llm, llms, serialized>>
    /\ UNCHANGED nonSharedVars

\* one round of the loop of _generate_tokens, lines 171-187: a token is sampled
\* from the cache as it is; the loop ends on the stop string or on max_tokens,
\* otherwise llm.generate evaluates the token
step_sample(c) ==
    /\ cl[c].call.pc = "gen"
    /\ LET m == llms[cl[c].llm]
       IN  \E stopped \in BOOLEAN :
              IF stopped \/ cl[c].call.left = 1 \/ m.n_tokens + 1 > SharedCtx
              THEN /\ cl' = [cl EXCEPT ![c].call = NoKvCall]
                   /\ UNCHANGED llms
              ELSE /\ llms' = [llms EXCEPT ![cl[c].llm] = EvalBy(m, c, 1)]
                   /\ cl' = [cl EXCEPT ![c].call.n = cl[c].call.n + 1,
                                       ![c].call.left = cl[c].call.left - 1]
    /\ UNCHANGED <<shared_llm, serialized>>
    /\ UNCHANGED nonSharedVars

SharedNext ==
    \E c \in Callers :
        \/ KvCacheClient(c, ModelPath(c))
        \/ \E n \in 1..MaxPrefix : ingest_begin(c, n)
        \/ \E m \in 1..MaxSample : no_cache_begin(c, m)
        \/ \E m \in 1..MaxSample : with_cache_begin(c, m)
        \/ step_reset(c)
        \/ step_rewind(c)
        \/ step_eval(c)
        \/ step_handle(c)
        \/ step_sample(c)

(***************************************************************************)
(* Specifications                                                          *)
(***************************************************************************)
ServerIdle ==
    /\ proc = None /\ live = {} /\ launched = 0 /\ pc = "idle" /\ clock = 0
    /\ deadline = 0 /\ readyAt = Never /\ chatOk = FALSE /\ healthOk = FALSE
    /\ httpMade = FALSE /\ ret = "none" /\ binExists = TRUE /\ modelExists = TRUE
    /\ signals = <<>>

InitServer == ServerInit /\ KvInit /\ JsonIdle /\ StreamIdle /\ HttpIdle /\ ConfigIdle /\ GrammarIdle /\ ServiceIdle /\ SharedIdle

SpecServer == InitServer /\ [][ServerNext]_vars

InitReady == ReadyInit /\ KvInit /\ JsonIdle /\ StreamIdle /\ HttpIdle /\ ConfigIdle /\ GrammarIdle /\ ServiceIdle /\ SharedIdle

\* the lifecycle specification with a stop() that is not suspended for ever
SpecStop ==
    InitServer /\ [][ServerNext]_vars /\ WF_vars(stop_tick) /\ WF_vars(stop_wait)

SpecReady == InitReady /\ [][ReadyNext]_vars

\* the steps of a start() call after the launch
StartStep ==
    start_loop \/ start_poll \/ start_chat \/ start_health \/ start_models \/ start_sleep

\* start() calls with every wait_s, readiness time and file state; a call that
\* has begun is not suspended for ever: each probe ends within its timeout and
\* the sleep ends
SpecStart == InitServer /\ [][ReadyNext]_vars /\ WF_vars(StartStep)

InitKv == KvInit /\ ServerIdle /\ JsonIdle /\ StreamIdle /\ HttpIdle /\ ConfigIdle /\ GrammarIdle /\ ServiceIdle /\ SharedIdle

SpecKv == InitKv /\ [][KvNext]_vars

InitGen == KvInit /\ ServerIdle /\ JsonIdle /\ StreamIdle /\ HttpIdle /\ ConfigIdle /\ GrammarIdle /\ ServiceIdle /\ SharedIdle

SpecGen == InitGen /\ [][GenNext]_vars

InitJson == JsonInit /\ ServerIdle /\ KvInit /\ StreamIdle /\ HttpIdle /\ ConfigIdle /\ GrammarIdle /\ ServiceIdle /\ SharedIdle

SpecJson == InitJson /\ [][JsonNext]_vars

InitStream == StreamInit /\ ServerIdle /\ KvInit /\ JsonIdle /\ HttpIdle /\ ConfigIdle /\ GrammarIdle /\ ServiceIdle /\ SharedIdle

SpecStream == InitStream /\ [][StreamNext]_vars

InitHttp == HttpInit /\ ServerIdle /\ KvInit /\ JsonIdle /\ StreamIdle /\ ConfigIdle /\ GrammarIdle /\ ServiceIdle /\ SharedIdle

SpecHttp == InitHttp /\ [][HttpNext]_vars

InitConfig == ConfigInit /\ ServerIdle /\ KvInit /\ JsonIdle /\ StreamIdle /\ HttpIdle /\ GrammarIdle /\ ServiceIdle /\ SharedIdle

SpecConfig == InitConfig /\ [][ConfigNext]_vars

InitGrammar ==
    GrammarInit /\ ServerIdle /\ KvInit /\ JsonIdle /\ StreamIdle /\ HttpIdle /\ ConfigIdle
        /\ ServiceIdle /\ SharedIdle

SpecGrammar == InitGrammar /\ [][GrammarNext]_vars

InitService ==
    ServiceInit /\ ServerIdle /\ KvInit /\ JsonIdle /\ StreamIdle /\ HttpIdle /\ ConfigIdle
        /\ GrammarIdle /\ SharedIdle

SpecService == InitService /\ [][ServiceNext]_vars

InitShared ==
    SharedInit /\ ServerIdle /\ KvInit /\ JsonIdle /\ StreamIdle /\ HttpIdle /\ ConfigIdle
        /\ GrammarIdle /\ ServiceIdle

SpecShared == InitShared /\ [][SharedNext]_vars

(***************************************************************************)
(* Claims about LlamaServerProcess                                         *)
(***************************************************************************)
StartPcs == {"loop", "poll", "chat", "health", "models", "sleep"}

\* a step in which a start() call that launched a process ends
StartEnds == pc \in StartPcs /\ pc' = "idle"

\* C1: whenever start() has returned normally, the process owned by the
\* supervisor has answered a chat-completion probe with HTTP 200 since its launch.
C1_ReturnMeansReady == (ret = "ok") => (proc # None /\ chatOk)

\* C2: a start() whose backend process exited before answering a probe with 200
\* never raises TimeoutError: when TimeoutError is raised the process is alive.
C2_ExitNeverTimeout == [][(StartEnds /\ ret' = "TimeoutError") => proc \in live]_vars

\* C8 (as claimed): for a backend ready N ticks after launch that does not exit,
\* start returns normally whenever wait_s > N and raises TimeoutError whenever
\* wait_s < N, whatever the positive buffer between them.
C8_AnyBuffer ==
    [][(StartEnds /\ proc \in live /\ readyAt # Never) =>
          /\ (deadline > readyAt => ret' = "ok")
          /\ (deadline < readyAt => ret' = "TimeoutError")]_vars

\* C8 (amended): for a backend ready N ticks after launch that does not exit,
\* start returns normally when wait_s >= N + GapTicks (the two probes and the
\* sleep that follow a failed chat probe), and raises TimeoutError when
\* wait_s <= N - ProbeTimeout (one probe timeout).
C8_BufferCoversPolling ==
    [][(StartEnds /\ proc \in live /\ readyAt # Never) =>
          /\ (deadline >= readyAt + GapTicks => ret' = "ok")
          /\ (deadline + ProbeTimeout <= readyAt => ret' = "TimeoutError")]_vars

\* a start() that waited N + GapTicks or longer for a backend that was not
\* ready at launch has returned normally after failed probes
C8_Witness ==
    /\ pc = "idle" /\ ret = "ok" /\ proc \in live
    /\ readyAt > 0 /\ readyAt # Never
    /\ deadline >= readyAt + GapTicks
    /\ healthOk

\* C9: at most one process launched by the supervisor has not exited yet.
C9_AtMostOneLiveProcess == Cardinality(live) <= 1

\* C10: start() on a supervisor that is not running, with the binary or the model
\* file missing, raises FileNotFoundError, launches nothing, makes no HTTP request
\* and leaves the process handle and is_running() as they were.
C10_MissingFileFailsFast ==
    [][((\E w \in WaitS, n \in ReadyTimes : start(w, n))
          /\ ~is_running /\ (~binExists \/ ~modelExists)) =>
          /\ ret' = "FileNotFoundError"
          /\ pc' = "idle"
          /\ proc' = proc /\ live' = live /\ launched' = launched
          /\ httpMade' = httpMade
          /\ ~is_running']_vars

\* start() has raised FileNotFoundError on a supervisor that still holds the
\* handle of an exited process
C10_Witness ==
    /\ pc = "idle" /\ ret = "FileNotFoundError"
    /\ (~binExists \/ ~modelExists)
    /\ proc # None /\ proc \notin live

\* C11: after stop() has returned is_running() is false, whatever the state
\* it was called in, and a stop() on a supervisor that is not running sends no
\* signal and changes neither the handle nor any process.
C11_StopLeavesStopped ==
    /\ []((pc = "idle" /\ ret = "stopped") => ~is_running)
    /\ [][(stop /\ ~is_running) =>
            (signals' = <<>> /\ pc' = "idle" /\ UNCHANGED <<proc, live, launched>>)]_vars

\* a stop() returned after its terminate was ignored and the kill was sent
C11_Witness ==
    /\ pc = "idle" /\ ret = "stopped" /\ signals = <<"terminate", "kill">>
    /\ live # {}

\* C12: stop() on a running process sends terminate first, waits at most the
\* grace period, sends kill only when the process has not exited by the end of
\* that period, and returns even when the process ignores terminate.
C12_ShutdownOrder ==
    /\ [](signals \in {<<>>, <<"terminate">>, <<"terminate", "kill">>})
    /\ []((pc = "stop_wait") => (clock <= GraceTicks /\ signals = <<"terminate">>))
    /\ [][(Len(signals') > Len(signals) /\ signals'[Len(signals')] = "kill") =>
            (pc = "stop_wait" /\ clock = GraceTicks /\ proc \in live)]_vars
    /\ [][(pc = "stop_wait" /\ pc' = "idle" /\ proc \notin live) =>
            signals' = <<"terminate">>]_vars
    /\ (pc = "stop_wait") ~> (pc = "idle" /\ ret = "stopped")

\* a stop() returned without a kill because the process exited in the grace period
C12_Witness ==
    /\ pc = "idle" /\ ret = "stopped" /\ signals = <<"terminate">> /\ launched > 0
    /\ live = {}

\* C13: after start() raised the startup failure or the TimeoutError,
\* is_running() is false: no process of that start() is alive and owned.
C13_FailedStartLeavesNothing ==
    (pc = "idle" /\ ret \in {"RuntimeError", "TimeoutError"}) => ~is_running

(***************************************************************************)
(* Claims about KvCacheClient                                              *)
(***************************************************************************)
\* _generate_tokens has been entered and llm.generate has evaluated nothing yet
GenStart == kpc = "gen" /\ out = <<>>

\* C3: every chat_with_cache(handle) begins its generation with the cache length
\* equal to handle.prefix_len, and in a sequence of chat_with_cache calls on the
\* handle of the latest ingestion what it generates from is the prefix alone,
\* whatever tokens the earlier calls evaluated.
C3_RewindToPrefix ==
    (GenStart /\ cur.op = "cache") =>
        /\ n_tokens = cur.h.prefix_len
        /\ (cur.h = handle /\ ~noCacheSince /\ ~staleSince) =>
              Visible = cur.h.prefix_tokens

\* a chat_with_cache begins on a cache in which an earlier chat_with_cache on
\* the same handle has left its user turn and generated tokens
C3_Witness ==
    /\ GenStart /\ cur.op = "cache" /\ cur.h = handle /\ ~noCacheSince /\ ~staleSince
    /\ \E i \in (n_tokens + 2 + MaxText)..NCtx : kv[i] # Empty

\* C4: whenever chat_with_cache runs on the handle of the latest ingestion (and
\* every chat_with_cache since then used that handle), the first prefix_len
\* positions of the cache hold the evaluation of prefix_tokens, also when
\* chat_no_cache was called in between.
C4_HandleValidUntilNextIngest ==
    (GenStart /\ cur.op = "cache" /\ cur.h = handle /\ ~staleSince) =>
        Visible = handle.prefix_tokens

C14_TokenBudget ==
    (cur.op \in {"cache", "nocache"}) =>
        /\ Len(out) <= cur.max_tokens
        /\ (Len(out) = cur.max_tokens) => kpc = "idle"

\* a generation halted by the budget alone, after more than one token
C14_Witness ==
    /\ kpc = "idle" /\ cur.op \in {"cache", "nocache"}
    /\ Len(out) = cur.max_tokens /\ cur.max_tokens > 1
    /\ ~Contains(detokenize(out), Stop)

\* C23: chat_with_cache never resets the cache and evaluates tokens only at
\* positions at or after handle.prefix_len, and a step that changes a cache
\* position below the prefix_len of the latest handle is a step of
\* ingest_paragraph (or of a chat_with_cache on an older handle).
C23_OnlyIngestRecomputesPrefix ==
    [][/\ (cur'.op = "cache") =>
              /\ n_tokens' >= cur'.h.prefix_len
              /\ \A i \in 1..cur'.h.prefix_len : kv'[i] = kv[i]
       /\ (cur'.op # "cache" /\ \E i \in 1..handle.prefix_len : kv'[i] # kv[i]) =>
              cur'.op = "ingest"]_vars

(***************************************************************************)
(* Claims about _extract_last_json_object                                  *)
(***************************************************************************)
\* the well-formed objects of t, as <<first index, last index>>
ObjSpans(t) ==
    {<<i, i + raw_decode(SubSeq(t, i, Len(t))) - 1>> :
        i \in {j \in 1..Len(t) : t[j] = "{" /\ raw_decode(SubSeq(t, j, Len(t))) > 0}}

\* the well-formed objects of t that do not lie inside another one
TopSpans(t) ==
    {sp \in ObjSpans(t) :
        ~\E o \in ObjSpans(t) : o[1] < sp[1] /\ sp[2] <= o[2]}

LastTopLevel(t) ==
    IF TopSpans(t) = {} THEN NoJson
    ELSE LET sp == CHOOSE x \in TopSpans(t) : \A y \in TopSpans(t) : y[1] <= x[1]
         IN  SubSeq(t, sp[1], sp[2])

\* C6: _extract_last_json_object returns the last well-formed top-level JSON
\* object of the text (None when there is none), never an object nested in
\* another well-formed object nor a brace pair inside one of its strings.
C6_LastTopLevelObject == (jpc = "done") => (jres = LastTopLevel(jtext))

\* C15: when the model's text is not valid JSON, each JSON-returning call
\* returns the repaired value if the text holds a well-formed object, and
\* otherwise fails with a decode error whose message holds the raw text.
C15_RepairBeforeFailing ==
    (jret.call # "none" /\ ~json_loads_ok(jtext)) =>
        IF ObjSpans(jtext) # {}
        THEN jret.kind = "value"
        ELSE jret.kind \in {"ValueError", "JSONDecodeError"} /\ jret.msg = jtext

(***************************************************************************)
(* Claims about chat_stream                                                *)
(***************************************************************************)
\* the lines before the first data: [DONE]
RECURSIVE BeforeDone(_)
BeforeDone(ls) ==
    IF ls = <<>> \/ Head(ls).kind = "done" THEN <<>>
    ELSE <<Head(ls)>> \o BeforeDone(Tail(ls))

\* the non-empty contents of the data: JSON frames among ls, in order
RECURSIVE FrameContents(_)
FrameContents(ls) ==
    IF ls = <<>> THEN <<>>
    ELSE LET l == Head(ls)
             c == IF l.delta = Null THEN l.message ELSE l.delta
         IN  (IF l.kind = "frame" /\ c # Null /\ c # "" THEN <<c>> ELSE <<>>)
                 \o FrameContents(Tail(ls))

HasNonObject(ls) == \E i \in 1..Len(ls) : ls[i].kind = "nonobject"

\* C7 as stated: for every sequence of lines, what chat_stream has yielded when
\* it ends is exactly the non-empty content of the data: JSON frames before
\* the first [DONE].
C7_EverySequence ==
    (spc # "iter") => (yielded = FrameContents(BeforeDone(lines)))

\* C7, amended: when every data: payload before the first [DONE] that is JSON
\* is a JSON object, chat_stream ends normally having yielded exactly the
\* non-empty contents of the data: frames before the first [DONE], in order,
\* and at every moment it has yielded those of the lines consumed so far; a
\* data: payload that is JSON but not an object makes it raise, after the
\* contents of the frames before that line.
C7_ObjectFrames ==
    /\ yielded = FrameContents(BeforeDone(SubSeq(lines, 1, spos)))
    /\ (spc = "done" /\ ~HasNonObject(BeforeDone(lines))) =>
            yielded = FrameContents(BeforeDone(lines))
    /\ (spc # "iter" /\ ~HasNonObject(BeforeDone(lines))) => spc = "done"
    /\ (spc = "raised") =>
            /\ spos >= 1 /\ lines[spos].kind = "nonobject"
            /\ yielded = FrameContents(SubSeq(lines, 1, spos - 1))

\* the stream "Hi", " there", [DONE] was read to its end
C7_Witness ==
    /\ lines = <<Line("frame", "Hi", Null), Line("frame", " there", Null),
                 Line("done", Null, Null)>>
    /\ spc = "done"
    /\ yielded = <<"Hi", " there">>

(***************************************************************************)
(* Claims about the calls of OpenAICompatChatClient                        *)
(***************************************************************************)
\* the first n characters of t (all of t when it is shorter)
FirstChars(t, n) == [i \in 1..(IF Len(t) < n THEN Len(t) ELSE n) |-> t[i]]

\* C16: a response whose status is not 200 makes each of the four calls fail
\* with an error that carries the status and exactly the first 1000 characters
\* of the body, after exactly one request and without any text returned.
C16_Non200IsFatal ==
    \A op \in Ops :
        (hrets[op] # NoOutcome /\ resp.status # 200) =>
            /\ hrets[op].kind = "RuntimeError"
            /\ hrets[op].status = resp.status
            /\ hrets[op].msg = FirstChars(resp.text, 1000)
            /\ hrets[op].text = <<>>
            /\ hreqs[op] = 1

\* the four calls failed on a 503 whose body is longer than 1000 characters
C16_Witness ==
    /\ resp.status = 503 /\ Len(resp.text) > 1000
    /\ \A op \in Ops : hrets[op].kind = "RuntimeError" /\ Len(hrets[op].msg) = 1000

\* C17: on every response chat and chat_message both fail or both succeed,
\* and on success the text of chat is the content of the message.
C17_ChatMessageSameAsChat ==
    (hrets["chat"] # NoOutcome /\ hrets["chat_message"] # NoOutcome) =>
        /\ (hrets["chat"].kind = "text") <=> (hrets["chat_message"].kind = "message")
        /\ (hrets["chat"].kind = "text") =>
              hrets["chat"].text = hrets["chat_message"].text

(***************************************************************************)
(* Claims about config_resolver                                            *)
(***************************************************************************)
\* the keys of the base config set of the call
BaseKeys == IF cfgIn.op = "request" THEN RequestKeys ELSE ServerKeys

\* the app config gives no server binary path
NoAppBin == cfgIn.app.llama_server_bin_path \in {NoneV, StrV(<<>>)}

\* C18: an override mapping with at least one key outside the base config set
\* makes resolve_server_config and resolve_request_config raise ValueError and
\* return no config, whatever its other keys are.
C18_UnknownKeyRejected ==
    (cfgOut # NoConfig /\ (DOMAIN cfgIn.overrides) \ BaseKeys # {}) =>
        (cfgOut.kind = "ValueError" /\ cfgOut.values = EmptyMap)

\* resolve_request_config raised on a mapping with a known and an unknown key
C18_Witness ==
    /\ cfgIn.op = "request" /\ cfgOut.kind = "ValueError"
    /\ DOMAIN cfgIn.overrides = {"max_tokens", "max_token"}

\* C19: with known override keys, each field of the config returned by
\* resolve_request_config is the override if given, else the task's default in
\* TASK_DEFAULTS if registered, else the global default.
C19_Layering ==
    (cfgIn.op = "request" /\ cfgOut # NoConfig
        /\ (DOMAIN cfgIn.overrides) \subseteq RequestKeys) =>
        /\ cfgOut.kind = "config"
        /\ DOMAIN cfgOut.values = RequestKeys
        /\ \A f \in RequestKeys :
              cfgOut.values[f] =
                  IF f \in DOMAIN cfgIn.overrides THEN cfgIn.overrides[f]
                  ELSE IF cfgIn.task \in DOMAIN TASK_DEFAULTS
                          /\ f \in DOMAIN TASK_DEFAULTS[cfgIn.task]
                  THEN TASK_DEFAULTS[cfgIn.task][f]
                  ELSE IF f = "max_tokens" THEN cfgIn.app.default_max_tokens
                  ELSE IF f = "temperature" THEN cfgIn.app.default_temperature
                  ELSE NoneV

\* grammar_correction with the max_tokens override of correct_sentences: the
\* override, the task's temperature (not the global one) and a global default
C19_Witness ==
    /\ cfgIn.op = "request" /\ cfgIn.task = "grammar_correction"
    /\ DOMAIN cfgIn.overrides = {"max_tokens"}
    /\ cfgIn.app.default_temperature = IntV(7)
    /\ cfgOut.kind = "config"
    /\ cfgOut.values["max_tokens"] = IntV(1024)
    /\ cfgOut.values["temperature"] = IntV(0)
    /\ cfgOut.values["stop"] = NoneV

\* C20: resolve_server_config returns a config only with a server binary path;
\* without a path in the app config and in the overrides (or with the path
\* overridden to None) it raises ValueError; a server_bin override supplies the
\* path when the app config has none.
C20_ServerBinRequired ==
    (cfgIn.op = "server" /\ cfgOut # NoConfig) =>
        /\ (cfgOut.kind = "config") => cfgOut.values["server_bin"].kind = "path"
        /\ ((DOMAIN cfgIn.overrides) \subseteq ServerKeys) =>
              IF "server_bin" \in DOMAIN cfgIn.overrides
              THEN IF cfgIn.overrides["server_bin"] = NoneV
                   THEN cfgOut = ConfigError
                   ELSE cfgOut.kind = "config"
              ELSE IF NoAppBin THEN cfgOut = ConfigError
                   ELSE cfgOut.kind = "config"

\* a server_bin override gave the path the app config does not have
C20_Witness ==
    /\ cfgIn.op = "server" /\ NoAppBin
    /\ "server_bin" \in DOMAIN cfgIn.overrides
    /\ cfgIn.overrides["server_bin"] = StrV(<<"bin", "llama-server">>)
    /\ cfgOut.kind = "config"
    /\ cfgOut.values["server_bin"] = PathV(cfgIn.env.cwd \o <<"bin", "llama-server">>)

\* C21: two calls of resolve_server_config (or of resolve_request_config) with
\* the same app config and overrides return equal configs, whatever the
\* environment is at the time of each call.
C21_SameInputsSameConfig ==
    (cfgPrev # NoConfig /\ cfgOut # NoConfig) => cfgOut = cfgPrev

\* C22: every config returned by resolve_request_config has max_tokens > 0.
C22_MaxTokensPositive ==
    (cfgIn.op = "request" /\ cfgOut.kind = "config") =>
        /\ cfgOut.values["max_tokens"].kind = "int"
        /\ cfgOut.values["max_tokens"].v[1] > 0

\* C29: a cache-bound task called when prepare_cache() has never been called
\* raises the RuntimeError of _require_cache without any call on the model, and
\* after prepare_cache() every chat_with_cache of a task uses the handle of
\* the most recent prepare_cache().
C29_RequiresPreparedCache ==
    [][((svcLog' # svcLog \/ svcRet' # svcRet) /\ svcRet'.task \in CacheBoundTasks) =>
          /\ (svcCache = None) => (svcRet'.kind = "RuntimeError" /\ svcLog' = svcLog)
          /\ \A i \in (Len(svcLog) + 1)..Len(svcLog') :
                (svcLog'[i].op = "chat_with_cache") =>
                    (svcCache # None /\ svcLog'[i].h = Ingests(svcLog))]_vars

\* a start() call is between its launch and its end
Starting == pc \in {"loop", "poll", "chat", "health", "models", "sleep"}

\* C28: a start() call that has launched ends, at most one polling iteration
\* after the deadline, with a normal return, the startup RuntimeError or the
\* TimeoutError; the call that finds a file missing ends with FileNotFoundError
\* at once; a call launches at most one process, and only as its first step.
C28_StartTerminates ==
    /\ Starting ~> (pc = "idle" /\ ret \in {"ok", "RuntimeError", "TimeoutError"})
    /\ [](Starting => (clock < deadline + IterTicks \/ clock = 0))
    /\ [](pc = "loop" => ret = "none")
    /\ [][(pc = "idle" /\ pc' = "idle" /\ ret' # ret) =>
            ret' \in {"ok", "FileNotFoundError"} /\ launched' = launched]_vars
    /\ [][(launched' # launched) =>
            (pc = "idle" /\ Starting' /\ launched' = launched + 1 /\ ~is_running)]_vars
    /\ [][(Starting /\ pc' = "idle" /\ ret' = "TimeoutError") =>
            (clock >= deadline /\ pc = "loop")]_vars

\* a start() for a backend that answers no probe has raised TimeoutError
\* after its last iteration ran to the end past the deadline
C28_Witness ==
    /\ pc = "idle" /\ ret = "TimeoutError"
    /\ readyAt = Never /\ deadline = MaxWait /\ httpMade /\ proc \in live

\* C26: no error is silently dropped: once chat_stream has read a data: frame
\* whose payload is not valid JSON, the call has raised.
C26_InvalidFrameReported ==
    \A i \in 1..spos : (lines[i].kind = "badjson") => spc = "raised"

(***************************************************************************)
(* Claims about correct_sentences                                          *)
(***************************************************************************)
\* the reasoning fallback of line 24 applies to the recorded message
FallbackCase ==
    /\ gOut.called
    /\ strip(gIn.content) = <<>>
    /\ gIn.family = "thinking"
    /\ Thinking(gIn.reasoning) # NoneV

\* C24 as stated: the final text is the trimmed content when that is
\* non-empty, a text taken from the reasoning only when the content is empty
\* and the family is "thinking", and otherwise the original sentence.
C24_OriginalSentenceFallback ==
    (gOut.kind = "result") =>
        /\ (gOut.called /\ strip(gIn.content) # <<>>) => gOut.final = strip(gIn.content)
        /\ FallbackCase =>
              gOut.final # <<>> /\ Contains(gIn.reasoning.v, gOut.final)
        /\ (~FallbackCase /\ strip(gIn.content) = <<>>) => gOut.final = gIn.sentence

\* C24 (amended): the final text is the trimmed content when that is
\* non-empty, a non-empty part of the reasoning only when the content is empty
\* and the family is "thinking", and otherwise the trimmed sentence; a
\* sentence that is empty after trimming is returned as it is, with no request.
C24_TrimmedSentenceFallback ==
    (gOut.kind = "result") =>
        IF ~gOut.called
        THEN strip(gIn.sentence) = <<>> /\ gOut.final = gIn.sentence
        ELSE /\ strip(gIn.sentence) # <<>>
             /\ (strip(gIn.content) # <<>>) => gOut.final = strip(gIn.content)
             /\ FallbackCase =>
                   gOut.final # <<>> /\ Contains(gIn.reasoning.v, gOut.final)
             /\ (~FallbackCase /\ strip(gIn.content) = <<>>) =>
                   gOut.final = strip(gIn.sentence)

\* an instruct-family message with empty content and a reasoning trace: the
\* sentence came back trimmed
C24_Witness ==
    /\ gOut.kind = "result" /\ gOut.called
    /\ gIn.sentence = <<" ", "a", " ">>
    /\ gIn.content = <<" ">>
    /\ gIn.family = "instruct"
    /\ gIn.reasoning = StrV(<<"x", ".">>)
    /\ gOut.final = <<"a">>

\* the last sentence of the trace: a maximal run of characters that are not
\* terminators followed by a maximal run of terminators, trimmed; the whole
\* trimmed trace when it has no terminator
LastCompleteSentence(t) ==
    LET ends == {i \in 1..Len(t) : t[i] \in Terminators}
    IN  IF ends = {} THEN strip(t)
        ELSE LET last == CHOOSE i \in ends : \A j \in ends : j <= i
                 body == {i \in 1..last : \A j \in i..last : t[j] \in Terminators}
                 firstT == CHOOSE i \in body : \A j \in body : i <= j
                 before == {i \in 1..(firstT - 1) : t[i] \in Terminators}
                 from == IF before = {} THEN 1
                          ELSE 1 + CHOOSE i \in before : \A j \in before : j <= i
             IN  strip(SubSeq(t, from, last))

\* C27: in the thinking fallback the final text is the last complete sentence
\* of the reasoning trace, for every trace.
C27_LastCompleteSentence ==
    (gOut.kind = "result" /\ FallbackCase) =>
        gOut.final = LastCompleteSentence(gIn.reasoning.v)

(***************************************************************************)
(* Claims about callers on the shared model                                *)
(***************************************************************************)
\* caller c is about to sample, or to read the prefix length, from a cache
\* whose length is not the one its call reached, or whose tokens above the
\* position its call started from were evaluated by another caller
Foreign(c) ==
    /\ cl[c].call.pc \in {"gen", "ret"}
    /\ LET m == llms[cl[c].llm]
       IN  \/ m.n_tokens # cl[c].call.n
           \/ \E i \in (Base(c) + 1)..cl[c].call.n : m.kv[i] # c

\* C25: with one call in flight at a time no call continues from a cache
\* length or from cache content written by another caller's call; without
\* that serialization such a state is reachable (C25_Witness).
C25_SerializedCallsDoNotInterleave ==
    serialized =>
        /\ Cardinality({c \in Callers : cl[c].call.pc # "idle"}) <= 1
        /\ \A c \in Callers : ~Foreign(c)

\* two calls interleaved: caller 1 samples in chat_with_cache after its
\* rewind and its prompt, from a cache the other caller has written into
C25_Witness ==
    /\ ~serialized
    /\ cl[1].call.op = "cache" /\ cl[1].call.pc = "gen"
    /\ Foreign(1)
    /\ cl[2].call.pc # "idle"

\* C30: at most one model instance is ever created; every client holds that
\* instance, which keeps the parameters of the first construction; and the
\* tokens one client evaluates after its reset are the top of the cache of
\* every other client.
C30_SingletonModel ==
    /\ [](Len(llms) <= 1)
    /\ [](\A c \in Callers : cl[c].llm \in {None, shared_llm})
    /\ [][\A i \in 1..Len(llms) : llms'[i].path = llms[i].path]_vars
    /\ [][\A a \in Callers :
            (/\ cl[a].call.pc = "eval" /\ cl[a].call.op \in {"ingest", "nocache"}
             /\ cl'[a].call.pc \in {"ret", "gen"}) =>
                \A b \in Callers \ {a} :
                    (cl[b].llm # None) =>
                        LET m == llms'[cl[b].llm]
                        IN  m.n_tokens >= 1 /\ m.kv[m.n_tokens] = a]_vars

\* caller 2 asked for model file 2 and holds a handle; its client uses the
\* model of file 1, in which caller 1 has just evaluated another prefix
C30_Witness ==
    /\ cl[2].llm = 1 /\ llms[1].path = ModelPath(1)
    /\ cl[2].handle >= 1
    /\ cl[1].call.op = "ingest" /\ cl[1].call.pc = "ret"
    /\ llms[1].kv[1] = 1

====
